---- MODULE Spec2Model ----
(***************************************************************************)
(* Model of src/src/ScheduleFunctions.cpp: the lowering driver             *)
(* schedule_functions (schedule validation, realisation injection, device  *)
(* propagation), the split handling of build_provide_loop_nest, and the    *)
(* auto-scheduler (Partitioner, schedule_advisor).                         *)
(*                                                                         *)
(* Statements are modelled by their skeleton: For, Provide,                *)
(* ProducerConsumer, Realize, Block, Evaluate and the extern call check.   *)
(* LetStmt wrappers carry only bounds variables; the injector peels and    *)
(* re-wraps them, so they are left out of the skeleton.  A Provide or an   *)
(* extern check carries the set of functions its expressions call.         *)
(***************************************************************************)
EXTENDS Integers, Sequences, FiniteSets, TLC

VARIABLES
    \* ---- schedule_functions ----
    calls,      \* env: function name -> names called by its pure definition
    kind,       \* env: function name -> "pure" | "extern" | a kind of update
    sched,      \* function name -> [store, compute] LoopLevels
    dims,       \* function name -> schedule dims (innermost first)
    s,          \* the statement built so far
    idx,        \* loop counter i of schedule_functions (order[idx] is next)
    pc,         \* position inside schedule_functions
    verdict,    \* outcome of the last validate_schedule call
    found,      \* flags of the last InjectRealization run
    spliced,    \* function name -> how it was spliced ("none" before)
    reinj,      \* result of re-running the injector on its own output
    unprop,     \* the statement handed to PropagateLoopDeviceAPI
    \* ---- build_provide_loop_nest: splits ----
    usplits,    \* s.splits(): the split list of the schedule
    live,       \* the loop variables the schedule has at the moment
    extent,     \* explicit bounds / reduction domain: var -> extent
    splits,     \* the local copy `splits`
    uniq,       \* the counter behind unique_name('s')
    npc,        \* position inside build_provide_loop_nest
    known_size_dims, \* var -> extent, for the dims of known static size
    err,        \* the split a user error was raised for
    stmt_out,   \* the statement being wrapped; Undef until the splits are done
    again,      \* result of the rebalancing pass run on its own output
    sidx,       \* index of the next split of the loop over `splits`
    \* ---- Partitioner ----
    analy,      \* what the dependence analysis knows of the pipeline
    inlines,    \* function -> the function it is inlined into
    level,      \* the level Partitioner::group runs for
    groups,     \* group output -> the members of the group
    children,   \* group -> the groups that consume it
    group_sched, \* group -> tile sizes and benefit
    option_cache, \* <<producer, consumer>> -> the Option evaluated for the pair
    best,       \* the Option the last choose_candidate returned
    ppc,        \* position inside Partitioner::group
    \* ---- schedule_advisor ----
    env,        \* function name -> its schedule: dims, splits, store and compute level
    adv,        \* the arguments of schedule_advisor and what the definitions say
    after_call, \* the schedules as each call of schedule_advisor left them
    apc,        \* position inside schedule_advisor
    \* ---- build_provide_loop_nest: the lets and the specialisations ----
    emit_in,    \* what is being lowered: a fuse and loop values, or a specialisation
    emitted,    \* the IR emitted for it
    evaluated,  \* the values the emitted lets take
    epc         \* position inside the emitter

sfvars == <<calls, kind, sched, dims, s, idx, pc, verdict, found, spliced,
            reinj, unprop>>

spvars == <<usplits, live, extent, splits, uniq, npc, known_size_dims, err,
            stmt_out, again, sidx>>

ptvars == <<analy, inlines, level, groups, children, group_sched, option_cache,
            best, ppc>>

advars == <<env, adv, after_call, apc>>

emvars == <<emit_in, emitted, evaluated, epc>>

vars == <<sfvars, spvars, ptvars, advars, emvars>>

\* what a step of one part of the scheduler leaves alone
xsf == <<spvars, ptvars, advars, emvars>>
xsp == <<sfvars, ptvars, advars, emvars>>
xpt == <<sfvars, spvars, advars, emvars>>
xad == <<sfvars, spvars, emvars>>
xem == <<sfvars, spvars, ptvars, advars>>

(***************************************************************************)
(* IR skeleton                                                             *)
(***************************************************************************)
Node(k, fn, st, var, t, d, cs, kids) ==
    [k |-> k, fn |-> fn, st |-> st, var |-> var, t |-> t, d |-> d,
     calls |-> cs, kids |-> kids]

Undef == Node("Undef", "", 0, "", "", "", {}, <<>>)
Evaluate0 == Node("Evaluate", "", 0, "", "", "", {}, <<>>)
MkFor(fn, st, var, t, d, body) == Node("For", fn, st, var, t, d, {}, <<body>>)
MkProvide(fn, st, cs) == Node("Provide", fn, st, "", "", "", cs, <<>>)
MkExternCheck(fn, cs) == Node("ExternCheck", fn, 0, "", "", "", cs, <<>>)
MkPC(fn, produce, update, consume) ==
    Node("PC", fn, 0, "", "", "", {}, <<produce, update, consume>>)
MkRealize(fn, body) == Node("Realize", fn, 0, "", "", "", {}, <<body>>)
MkBlock(first, rest) == Node("Block", "", 0, "", "", "", {}, <<first, rest>>)

\* LoopLevel (func, var) and its distinguished values
LoopLevel(func, var) == [func |-> func, var |-> var]
inline == LoopLevel("", "")
root == LoopLevel("", "__root")
is_inline(l) == l.var = ""
is_root(l) == l.var = "__root"

\* LoopLevel::match(const string &loop): the loop name starts with func + "."
\* and ends with "." + var.  Loop names are kept as (func, stage, var).
matchLoop(l, loop) == l.func = loop.fn /\ l.var = loop.var /\ l.var # ""

\* LoopLevel::match(const LoopLevel &other)
matchLevel(l, other) == l.func = other.func /\ l.var = other.var

(***************************************************************************)
(* The pipeline: three functions in realisation order f, g, h (leaves      *)
(* first, output last).                                                    *)
(***************************************************************************)
order == <<"f", "g", "h">>
Funcs == {"f", "g", "h"}
outputs == {"h"}

\* the call graphs the model draws from (who calls whom in the pure definition)
CallGraphs ==
    { [f |-> {}, g |-> {"f"}, h |-> {"g"}],
      [f |-> {}, g |-> {}, h |-> {"f", "g"}],
      [f |-> {}, g |-> {"f"}, h |-> {"f", "g"}] }

\* function args: h(x, y), g(x), f(x)
args(fn) == IF fn = "h" THEN <<"x", "y">> ELSE <<"x">>

ForTypes == {"Serial", "Parallel", "Vectorized", "Unrolled"}
DeviceAPIs == {"Parent", "Host", "GPU", "OpenCL"}

Dim(var, t, d) == [var |-> var, for_type |-> t, device_api |-> d]

\* the dims lists a schedule of fn may carry: one Dim per arg, innermost
\* first, followed by the synthetic __outermost dim.  A dim is either a
\* default one (Serial, Parent) or carries a loop type and a device tag.
DimChoices(fn) ==
    IF fn = "h"
    THEN { <<dx, dy, Dim("__outermost", "Serial", "Parent")>> :
             dx \in {Dim("x", "Serial", "Parent"), Dim("x", "Vectorized", "OpenCL")},
             dy \in {Dim("y", "Serial", "Parent"), Dim("y", "Parallel", "GPU")} }
    ELSE { <<dx, Dim("__outermost", "Serial", "Parent")>> :
             dx \in {Dim("x", "Serial", "Parent"), Dim("x", "Parallel", "GPU")} }

\* the loop levels a schedule may name
Levels == { inline, root, LoopLevel("h", "y"), LoopLevel("h", "x"),
            LoopLevel("g", "x") }

SchedChoices(fn) ==
    IF fn \in outputs
    THEN { [store |-> a, compute |-> b] : a \in {inline, root}, b \in {inline, root} }
    ELSE { [store |-> a, compute |-> b] : a \in Levels, b \in Levels }

has_pure_definition(fn) == kind[fn] # "extern"
has_update_definition_Never(fn) == FALSE
\* the definitions with an update stage s1: "update" calls in both stages
\* what the function calls, "accumulate" only in the pure stage (the update
\* reads the function itself), "reduction" only in the update stage (the
\* pure stage initialises)
UpdateKinds == {"update", "accumulate", "reduction"}
has_update_definition(fn) == kind[fn] \in UpdateKinds
has_extern_definition(fn) == kind[fn] = "extern"
is_pure(fn) == kind[fn] = "pure"


(***************************************************************************)
(* function_is_used_in_stmt (IsUsedInStmt): a Call to func, or a reference *)
(* to one of its buffers, anywhere in the statement.                       *)
(***************************************************************************)
RECURSIVE function_is_used_in_stmt(_, _)
function_is_used_in_stmt(fn, stmt) ==
    \/ fn \in stmt.calls
    \/ \E j \in 1..Len(stmt.kids) : function_is_used_in_stmt(fn, stmt.kids[j])

(***************************************************************************)
(* build_provide_loop_nest, loop part: one For per schedule dim around the *)
(* Provide, dims[1] innermost.                                             *)
(***************************************************************************)
RECURSIVE WrapDims(_, _, _, _, _)
WrapDims(fn, st, ds, j, inner) ==
    IF j > Len(ds) THEN inner
    ELSE WrapDims(fn, st, ds, j + 1,
                  MkFor(fn, st, ds[j].var, ds[j].for_type, ds[j].device_api, inner))

build_provide_loop_nest(fn, st, cs, ds) == WrapDims(fn, st, ds, 1, MkProvide(fn, st, cs))

\* build_produce: the extern call check (which names the function's own
\* output buffers and the buffers of its function arguments) or the loop nest
\* of the pure stage s0
build_produce(fn, knd, cs, ds) ==
    IF knd = "extern" THEN MkExternCheck(fn, {fn} \cup cs)
    ELSE build_provide_loop_nest(fn, 0, IF knd = "reduction" THEN {} ELSE cs, ds)

\* build_update and the merge of build_production: one update stage s1,
\* which reads the function itself, as a Block whose rest is undefined
build_update(fn, knd, cs, ds) ==
    IF knd \in UpdateKinds
    THEN MkBlock(build_provide_loop_nest(fn, 1,
                     IF knd = "accumulate" THEN {fn} ELSE cs \cup {fn}, ds), Undef)
    ELSE Undef

build_production(fn, knd, cs, ds) ==
    <<build_produce(fn, knd, cs, ds), build_update(fn, knd, cs, ds)>>

(***************************************************************************)
(* InjectRealization.  F is the function being injected:                   *)
(*   [name, is_output, kind, store, compute, production].                  *)
(* The mutator's member flags travel with the statement:                   *)
(*   [st: statement, fs: found_store_level, fc: found_compute_level,       *)
(*    af: the internal_assert of the store level failed].                  *)
(***************************************************************************)
build_pipeline(F, stmt) == MkPC(F.name, F.production[1], F.production[2], stmt)

build_realize(F, stmt) == IF ~F.is_output THEN MkRealize(F.name, stmt) ELSE stmt

IRes(stmt, fs, fc, af) == [st |-> stmt, fs |-> fs, fc |-> fc, af |-> af]

\* the compute_at test without the output case
AtComputeLevel_UsesOnly(F, loop, body) ==
    IF function_is_used_in_stmt(F.name, body)
    THEN build_pipeline(F, body) ELSE body

\* the compute_at test that builds the pipeline of an output only
AtComputeLevel_OutputOnly(F, loop, body) ==
    IF F.is_output THEN build_pipeline(F, body) ELSE body

\* the compute_at test of visit(const For *)
AtComputeLevel(F, loop, body) ==
    IF function_is_used_in_stmt(F.name, body) \/ F.is_output
    THEN build_pipeline(F, body) ELSE body

\* the store_at test that leaves an already realized body alone
AtStoreLevel_Once(F, loop, body) ==
    IF (function_is_used_in_stmt(F.name, body) \/ F.is_output)
       /\ ~(body.k = "Realize" /\ body.fn = F.name)
    THEN build_realize(F, body) ELSE body

\* the store_at test of visit(const For *)
AtStoreLevel(F, loop, body) ==
    IF function_is_used_in_stmt(F.name, body) \/ F.is_output
    THEN build_realize(F, body) ELSE body

RECURSIVE InjectRealization(_, _, _)
InjectRealization(F, stmt, fl) ==
    CASE stmt.k = "For" ->
           IF /\ F.kind = "extern" /\ is_inline(F.compute)
              /\ stmt.t = "Vectorized" /\ function_is_used_in_stmt(F.name, stmt)
           THEN IRes(build_realize(F, build_pipeline(F, stmt)), TRUE, TRUE, fl.af)
           ELSE
             LET r  == InjectRealization(F, stmt.kids[1], fl)
                 c  == matchLoop(F.compute, stmt)
                 b1 == IF c THEN AtComputeLevel(F, stmt, r.st) ELSE r.st
                 fc == r.fc \/ c
                 m  == matchLoop(F.store, stmt)
                 b2 == IF m THEN AtStoreLevel(F, stmt, b1) ELSE b1
             IN IRes([stmt EXCEPT !.kids = <<b2>>], r.fs \/ m, fc,
                     r.af \/ (m /\ ~fc))
      [] stmt.k = "Provide" ->
           IF /\ stmt.fn # F.name /\ F.kind # "pure" /\ is_inline(F.compute)
              /\ function_is_used_in_stmt(F.name, stmt)
           THEN IRes(build_realize(F, build_pipeline(F, stmt)), TRUE, TRUE, fl.af)
           ELSE IRes(stmt, fl.fs, fl.fc, fl.af)
      [] stmt.k = "PC" ->
           LET p == InjectRealization(F, stmt.kids[1], fl)
               u == IF stmt.kids[2].k # "Undef"
                    THEN InjectRealization(F, stmt.kids[2], p)
                    ELSE IRes(stmt.kids[2], p.fs, p.fc, p.af)
               c == InjectRealization(F, stmt.kids[3], u)
           IN IRes([stmt EXCEPT !.kids = <<p.st, u.st, c.st>>], c.fs, c.fc, c.af)
      [] stmt.k = "Realize" ->
           LET b == InjectRealization(F, stmt.kids[1], fl)
           IN IRes([stmt EXCEPT !.kids = <<b.st>>], b.fs, b.fc, b.af)
      [] stmt.k = "Block" ->
           LET a == InjectRealization(F, stmt.kids[1], fl)
               b == IF stmt.kids[2].k # "Undef"
                    THEN InjectRealization(F, stmt.kids[2], a)
                    ELSE IRes(stmt.kids[2], a.fs, a.fc, a.af)
           IN IRes([stmt EXCEPT !.kids = <<a.st, b.st>>], b.fs, b.fc, b.af)
      [] OTHER -> IRes(stmt, fl.fs, fl.fc, fl.af)

\* a fresh injector: InjectRealization(f, is_output, inject_asserts).mutate(s)
NoFlags == [fs |-> FALSE, fc |-> FALSE, af |-> FALSE]
injector_mutate(F, stmt) == InjectRealization(F, stmt, NoFlags)

(***************************************************************************)
(* ComputeLegalSchedules: the visitor keeps the stack `sites` of the loops *)
(* it is inside and intersects it into sites_allowed at every use.         *)
(***************************************************************************)
\* a site that takes a Parallel loop only for parallel
Site_ParallelOnly(loop) == [is_parallel |-> loop.t = "Parallel",
                            loop_level |-> LoopLevel(loop.fn, loop.var)]

Site(loop) == [is_parallel |-> loop.t = "Parallel" \/ loop.t = "Vectorized",
               loop_level |-> LoopLevel(loop.fn, loop.var)]

NoSites == [found |-> FALSE, sites_allowed |-> <<>>]

register_use(sites, acc) ==
    IF ~acc.found THEN [found |-> TRUE, sites_allowed |-> sites]
    ELSE LET common(s1) == \E j \in 1..Len(acc.sites_allowed) :
                              matchLevel(s1.loop_level, acc.sites_allowed[j].loop_level)
         IN [found |-> TRUE, sites_allowed |-> SelectSeq(sites, common)]

RECURSIVE ComputeLegalSchedules(_, _, _, _)
RECURSIVE VisitKids(_, _, _, _, _)
VisitKids(fn, kids, j, sites, acc) ==
    IF j > Len(kids) THEN acc
    ELSE VisitKids(fn, kids, j + 1, sites,
                   ComputeLegalSchedules(fn, kids[j], sites, acc))

ComputeLegalSchedules(fn, stmt, sites, acc) ==
    CASE stmt.k = "For" ->
           ComputeLegalSchedules(fn, stmt.kids[1], Append(sites, Site(stmt)), acc)
      [] stmt.k \in {"Provide", "ExternCheck"} ->
           IF fn \in stmt.calls THEN register_use(sites, acc) ELSE acc
      [] OTHER -> VisitKids(fn, stmt.kids, 1, sites, acc)

legal_sites(fn, stmt) == ComputeLegalSchedules(fn, stmt, <<>>, NoSites).sites_allowed

(***************************************************************************)
(* validate_schedule                                                       *)
(***************************************************************************)
RECURSIVE SiteScan(_, _, _, _)
\* the scan with compute_at_ok set without regard to store_at_ok
SiteScan_AnyOrder(sites, store_at, compute_at, j) ==
    IF j = 0 THEN [store_at_ok |-> FALSE, compute_at_ok |-> FALSE,
                   store_idx |-> 1, compute_idx |-> 1]
    ELSE LET p  == SiteScan(sites, store_at, compute_at, j - 1)
             ms == matchLevel(sites[j].loop_level, store_at)
             mc == matchLevel(sites[j].loop_level, compute_at)
         IN [store_at_ok   |-> p.store_at_ok \/ ms,
             compute_at_ok |-> p.compute_at_ok \/ mc,
             store_idx     |-> IF ms THEN j ELSE p.store_idx,
             compute_idx   |-> IF mc THEN j ELSE p.compute_idx]

\* the scan over the legal sites: [store_at_ok, compute_at_ok, store_idx,
\* compute_idx] after sites 1..j have been looked at (the code counts from 0)
SiteScan(sites, store_at, compute_at, j) ==
    IF j = 0 THEN [store_at_ok |-> FALSE, compute_at_ok |-> FALSE,
                   store_idx |-> 1, compute_idx |-> 1]
    ELSE LET p  == SiteScan(sites, store_at, compute_at, j - 1)
             ms == matchLevel(sites[j].loop_level, store_at)
             mc == matchLevel(sites[j].loop_level, compute_at)
             so == p.store_at_ok \/ ms
         IN [store_at_ok   |-> so,
             compute_at_ok |-> IF mc THEN so ELSE p.compute_at_ok,
             store_idx     |-> IF ms THEN j ELSE p.store_idx,
             compute_idx   |-> IF mc THEN j ELSE p.compute_idx]

\* the race loop stopping one site short of compute_idx
RaceBetween_Strict(sites, store_idx, compute_idx) ==
    \E j \in (store_idx + 1)..(compute_idx - 1) : sites[j].is_parallel

\* the loop that looks for a parallel site after store_idx up to compute_idx
RaceBetween(sites, store_idx, compute_idx) ==
    \E j \in (store_idx + 1)..compute_idx : sites[j].is_parallel

\* the extern arguments of f that are functions are held in calls[f]
InlineExternInput(fn) ==
    has_extern_definition(fn) /\ \E g \in calls[fn] : is_inline(sched[g].compute)

\* a validator without the early return for inlined functions
validate_schedule_NoInline(fn, store_at, compute_at, stmt, is_output) ==
    IF InlineExternInput(fn) THEN "user_error_extern"
    ELSE IF is_output
    THEN IF is_root(store_at) /\ is_root(compute_at) THEN "ok"
         ELSE "user_error_output"
    ELSE LET sites == legal_sites(fn, stmt)
             sc    == SiteScan(sites, store_at, compute_at, Len(sites))
         IN IF sc.store_at_ok /\ sc.compute_at_ok
            THEN IF RaceBetween(sites, sc.store_idx, sc.compute_idx)
                 THEN "user_error_race" ELSE "ok"
            ELSE "user_error_site"

validate_schedule(fn, store_at, compute_at, stmt, is_output) ==
    IF InlineExternInput(fn) THEN "user_error_extern"
    ELSE IF is_output
    THEN IF is_root(store_at) /\ is_root(compute_at) THEN "ok"
         ELSE "user_error_output"
    ELSE IF is_inline(store_at) /\ is_inline(compute_at) THEN "ok"
    ELSE LET sites == legal_sites(fn, stmt)
             sc    == SiteScan(sites, store_at, compute_at, Len(sites))
         IN IF sc.store_at_ok /\ sc.compute_at_ok
            THEN IF RaceBetween(sites, sc.store_idx, sc.compute_idx)
                 THEN "user_error_race" ELSE "ok"
            ELSE "user_error_site"


(***************************************************************************)
(* inline_function (Inline.h): every call to fn is replaced by fn's pure   *)
(* definition, so the calls of that definition take its place.             *)
(***************************************************************************)
RECURSIVE inline_function(_, _, _)
inline_function(stmt, fn, cs) ==
    [stmt EXCEPT
       !.calls = IF fn \in @ THEN (@ \ {fn}) \cup cs ELSE @,
       !.kids  = [j \in 1..Len(@) |-> inline_function(@[j], fn, cs)]]

(***************************************************************************)
(* RemoveLoopsOverOutermost                                                *)
(***************************************************************************)
RECURSIVE RemoveLoopsOverOutermost(_)
RemoveLoopsOverOutermost(stmt) ==
    IF stmt.k = "For" /\ stmt.var = "__outermost"
    THEN RemoveLoopsOverOutermost(stmt.kids[1])
    ELSE [stmt EXCEPT !.kids = [j \in 1..Len(@) |-> RemoveLoopsOverOutermost(@[j])]]

(***************************************************************************)
(* PropagateLoopDeviceAPI.  The member for_device travels with the         *)
(* statement: [st: statement, dev: for_device when the visit returns].     *)
(***************************************************************************)
RECURSIVE PropagateLoopDeviceAPI(_, _)
RECURSIVE PropagateKids(_, _, _, _)
\* the children of a node are mutated in order, each seeing the for_device
\* the previous one left behind
PropagateKids(kids, j, dev, done) ==
    IF j > Len(kids) THEN [st |-> done, dev |-> dev]
    ELSE LET r == PropagateLoopDeviceAPI(kids[j], dev)
         IN PropagateKids(kids, j + 1, r.dev, Append(done, r.st))

\* the For visit without the restore of for_device on the way out
PropagateLoopDeviceAPI_NoRestore(stmt, for_device) ==
    IF stmt.k = "For"
    THEN LET entered == IF stmt.d = "Parent" THEN for_device ELSE stmt.d
             body    == PropagateLoopDeviceAPI(stmt.kids[1], entered)
         IN [st  |-> [stmt EXCEPT !.d = body.dev, !.kids = <<body.st>>],
             dev |-> body.dev]
    ELSE LET r == PropagateKids(stmt.kids, 1, for_device, <<>>)
         IN [st |-> [stmt EXCEPT !.kids = r.st], dev |-> r.dev]

PropagateLoopDeviceAPI(stmt, for_device) ==
    IF stmt.k = "For"
    THEN LET save_device == for_device
             entered     == IF stmt.d = "Parent" THEN for_device ELSE stmt.d
             body        == PropagateLoopDeviceAPI(stmt.kids[1], entered)
         IN [st  |-> [stmt EXCEPT !.d = body.dev, !.kids = <<body.st>>],
             dev |-> save_device]
    ELSE LET r == PropagateKids(stmt.kids, 1, for_device, <<>>)
         IN [st |-> [stmt EXCEPT !.kids = r.st], dev |-> r.dev]

(***************************************************************************)
(* schedule_functions                                                      *)
(***************************************************************************)
Func(fn) == [name       |-> fn,
             is_output  |-> fn \in outputs,
             kind       |-> kind[fn],
             store      |-> sched[fn].store,
             compute    |-> sched[fn].compute,
             production |-> build_production(fn, kind[fn], calls[fn], dims[fn])]

\* schedule_functions is not running
LoweringIdle ==
    /\ calls = [fn \in Funcs |-> {}]
    /\ kind = [fn \in Funcs |-> "pure"]
    /\ sched = [fn \in Funcs |-> [store |-> inline, compute |-> inline]]
    /\ dims = [fn \in Funcs |-> <<>>]
    /\ s = Undef /\ idx = 0 /\ pc = "idle" /\ verdict = "none" /\ found = NoFlags
    /\ spliced = [fn \in Funcs |-> "none"]
    /\ reinj = [fn |-> "", st |-> Undef]
    /\ unprop = Undef

\* no Partitioner has been constructed
PartitionerIdle ==
    /\ analy = <<>> /\ inlines = <<>> /\ level = "" /\ groups = <<>>
    /\ children = <<>> /\ group_sched = <<>> /\ option_cache = <<>>
    /\ best = <<>> /\ ppc = "idle"

\* schedule_advisor has not been called
AdvisorIdle ==
    /\ env = <<>> /\ adv = <<>> /\ after_call = <<>> /\ apc = "idle"

\* nothing is being emitted
EmitIdle ==
    /\ emit_in = <<>> /\ emitted = <<>> /\ evaluated = <<>> /\ epc = "idle"

\* build_provide_loop_nest is not running
SplitsIdle ==
    /\ usplits = <<>> /\ live = {} /\ extent = <<>> /\ splits = <<>> /\ uniq = 0
    /\ npc = "idle" /\ known_size_dims = <<>> /\ err = <<>> /\ stmt_out = Undef
    /\ again = <<>> /\ sidx = 0

Kinds == { [f |-> kf, g |-> kg, h |-> kh] :
             kf \in {"pure", "update", "extern"}, kg \in {"pure", "update"},
             kh \in {"pure", "accumulate", "reduction"} }

Init ==
    /\ calls \in CallGraphs
    /\ kind \in Kinds
    /\ sched = [fn \in Funcs |-> [store |-> inline, compute |-> inline]]
    /\ dims = [fn \in Funcs |-> <<>>]
    /\ s = MkFor("", 0, "__root", "Serial", "Host", Evaluate0)
    /\ idx = Len(order)
    /\ pc = "validate"
    /\ verdict = "none"
    /\ found = NoFlags
    /\ spliced = [fn \in Funcs |-> "none"]
    /\ reinj = [fn |-> "", st |-> Undef]
    /\ unprop = Undef
    /\ SplitsIdle
    /\ PartitionerIdle
    /\ AdvisorIdle
    /\ EmitIdle

\* validate_schedule(f, s, is_output) for f = order[i-1]; the schedule of f
\* is read here for the first time and is drawn here
Validate ==
    /\ pc = "validate"
    /\ \E sc \in SchedChoices(order[idx]) :
         LET fn == order[idx]
             v  == validate_schedule(fn, sc.store, sc.compute, s, fn \in outputs)
         IN /\ sched' = [sched EXCEPT ![fn] = sc]
            /\ verdict' = v
            /\ pc' = IF v = "ok" THEN "splice" ELSE "user_error"
    /\ UNCHANGED <<calls, kind, dims, s, idx, found, spliced, reinj, unprop>>
    /\ UNCHANGED xsf

\* validate_schedule for a pipeline whose schedules are all set beforehand
ValidateDrawn ==
    /\ pc = "validate"
    /\ LET fn == order[idx]
           v  == validate_schedule(fn, sched[fn].store, sched[fn].compute, s,
                                   fn \in outputs)
       IN /\ verdict' = v
          /\ pc' = IF v = "ok" THEN "splice" ELSE "user_error"
    /\ UNCHANGED <<calls, kind, sched, dims, s, idx, found, spliced, reinj, unprop>>
    /\ UNCHANGED xsf

NextFunction == IF idx = 1 THEN "strip" ELSE "validate"

\* the inlining branch of the loop body
InlineFunction ==
    /\ pc = "splice"
    /\ LET fn == order[idx]
       IN /\ has_pure_definition(fn) /\ ~has_update_definition(fn)
          /\ is_inline(sched[fn].compute)
          /\ s' = inline_function(s, fn, calls[fn])
          /\ spliced' = [spliced EXCEPT ![fn] = "inlined"]
    /\ idx' = idx - 1
    /\ pc' = NextFunction
    /\ UNCHANGED <<calls, kind, sched, dims, verdict, found, reinj, unprop>>
    /\ UNCHANGED xsf

\* the injection branch of the loop body; the dims of f are read here for
\* the first time and are drawn here
InjectFunction ==
    /\ pc = "splice"
    /\ LET fn == order[idx]
       IN /\ ~(has_pure_definition(fn) /\ ~has_update_definition(fn)
               /\ is_inline(sched[fn].compute))
          /\ \E ds \in DimChoices(fn) :
               LET F == [Func(fn) EXCEPT
                           !.production = build_production(fn, kind[fn], calls[fn], ds)]
                   r == injector_mutate(F, s)
               IN /\ dims' = [dims EXCEPT ![fn] = ds]
                  /\ found' = [fs |-> r.fs, fc |-> r.fc, af |-> r.af]
                  /\ IF r.af \/ ~(r.fs /\ r.fc)
                     THEN /\ pc' = "internal_error"
                          /\ UNCHANGED <<s, idx, spliced>>
                     ELSE /\ s' = r.st
                          /\ spliced' = [spliced EXCEPT ![fn] = "injected"]
                          /\ idx' = idx - 1
                          /\ pc' = NextFunction
    /\ UNCHANGED <<calls, kind, sched, verdict, reinj, unprop>>
    /\ UNCHANGED xsf

\* the root loop is dropped and the loops over __outermost are removed
StripRoot ==
    /\ pc = "strip"
    /\ s' = RemoveLoopsOverOutermost(s.kids[1])
    /\ unprop' = s'
    /\ pc' = "propagate"
    /\ UNCHANGED <<calls, kind, sched, dims, idx, verdict, found, spliced, reinj>>
    /\ UNCHANGED xsf

\* s = PropagateLoopDeviceAPI().mutate(s); return s
Propagate ==
    /\ pc = "propagate"
    /\ s' = PropagateLoopDeviceAPI(s, "Host").st
    /\ pc' = "done"
    /\ UNCHANGED <<calls, kind, sched, dims, idx, verdict, found, spliced, reinj,
                   unprop>>
    /\ UNCHANGED xsf

\* the injector of an already injected function is run once more on the
\* statement built so far; the statement itself is left alone
Reinject ==
    /\ pc \in {"validate", "strip"}
    /\ \E fn \in Funcs :
         /\ spliced[fn] = "injected"
         /\ reinj' = [fn |-> fn, st |-> injector_mutate(Func(fn), s).st]
    /\ pc' = "reinjected"
    /\ UNCHANGED <<calls, kind, sched, dims, s, idx, verdict, found, spliced, unprop>>
    /\ UNCHANGED xsf

Next ==
    \/ Validate
    \/ InlineFunction
    \/ InjectFunction
    \/ StripRoot
    \/ Propagate
    \/ Reinject

Spec == Init /\ [][Next]_vars

\* pipelines with an extern g that takes f as an argument, the schedules of
\* all three functions being set before schedule_functions is entered
ValidateKinds == { [f |-> "pure", g |-> kg, h |-> "pure"] : kg \in {"pure", "extern"} }
ValidateLevels == { inline, root, LoopLevel("h", "x") }
ValidateChoices(fn) ==
    { sc \in SchedChoices(fn) : sc.store \in ValidateLevels /\ sc.compute \in ValidateLevels }

InitValidate ==
    /\ calls \in CallGraphs
    /\ kind \in ValidateKinds
    /\ sched \in [Funcs -> UNION { ValidateChoices(fn) : fn \in Funcs }]
    /\ \A fn \in Funcs : sched[fn] \in ValidateChoices(fn)
    /\ dims = [fn \in Funcs |-> <<>>]
    /\ s = MkFor("", 0, "__root", "Serial", "Host", Evaluate0)
    /\ idx = Len(order)
    /\ pc = "validate"
    /\ verdict = "none"
    /\ found = NoFlags
    /\ spliced = [fn \in Funcs |-> "none"]
    /\ reinj = [fn |-> "", st |-> Undef]
    /\ unprop = Undef
    /\ SplitsIdle
    /\ PartitionerIdle
    /\ AdvisorIdle
    /\ EmitIdle

NextValidate ==
    \/ ValidateDrawn
    \/ InlineFunction
    \/ InjectFunction
    \/ StripRoot
    \/ Propagate

SpecValidate == InitValidate /\ [][NextValidate]_vars


(***************************************************************************)
(* Properties of schedule validation                                       *)
(***************************************************************************)
\* the function the loop of schedule_functions is at
cur == order[idx]
JustValidated == pc \in {"splice", "user_error"}
\* validate_schedule went past the output and the inline test for cur
SiteChecked ==
    /\ JustValidated /\ cur \notin outputs
    /\ ~(is_inline(sched[cur].store) /\ is_inline(sched[cur].compute))
curSites == legal_sites(cur, s)
StoreAt(j) == matchLevel(curSites[j].loop_level, sched[cur].store)
ComputeAt(j) == matchLevel(curSites[j].loop_level, sched[cur].compute)

\* C1: an accepted schedule of a non-output function that is not fully
\* inline has store_at and compute_at among the legal sites of the function,
\* store_at at an index <= that of compute_at, with no parallel site between
\* the two.
C1_LegalSiteIntersection ==
    (SiteChecked /\ verdict = "ok") =>
        \E a \in 1..Len(curSites) : \E b \in a..Len(curSites) :
            /\ StoreAt(a) /\ ComputeAt(b)
            /\ \A j \in (a + 1)..(b - 1) : ~curSites[j].is_parallel

C1_Witness ==
    /\ SiteChecked /\ verdict = "ok"
    /\ \E a \in 1..Len(curSites) : \E b \in (a + 2)..Len(curSites) :
            StoreAt(a) /\ ComputeAt(b)

\* scenario S4: cur is used inside two nested loops, the outer one Parallel,
\* stored at the outer loop and computed at the innermost loop
S4 ==
    /\ SiteChecked
    /\ Len(curSites) >= 2
    /\ curSites[Len(curSites) - 1].is_parallel
    /\ StoreAt(Len(curSites) - 1) /\ ComputeAt(Len(curSites))

\* C2 as stated: scenario S4 is rejected with the potential-race user error.
C2_S4Rejected == S4 => verdict = "user_error_race"

\* C2 amended: with store_at and compute_at among the legal sites in that
\* order, the potential-race user error is raised exactly when a site after
\* that of store_at, up to and including that of compute_at, is parallel; so
\* S4 is rejected when the innermost loop is itself Parallel or Vectorized
\* and accepted when it is not.
C2_RaceDetection ==
    SiteChecked =>
        \A a \in 1..Len(curSites) : \A b \in a..Len(curSites) :
            (StoreAt(a) /\ ComputeAt(b)) =>
                ((verdict = "user_error_race") <=>
                    \E j \in (a + 1)..b : curSites[j].is_parallel)

C2_Witness ==
    /\ S4 /\ curSites[Len(curSites)].is_parallel
    /\ verdict = "user_error_race"

\* a ProducerConsumer of fn that no For encloses
RECURSIVE PCOutsideLoops(_, _)
PCOutsideLoops(stmt, fn) ==
    \/ stmt.k = "PC" /\ stmt.fn = fn
    \/ /\ stmt.k # "For"
       /\ \E j \in 1..Len(stmt.kids) : PCOutsideLoops(stmt.kids[j], fn)

\* C3: an output whose store_at or compute_at is not root is rejected with a
\* user error, an output at root is accepted, and once an output has been
\* processed its ProducerConsumer sits directly inside the root loop.
C3_OutputContract ==
    /\ (JustValidated /\ cur \in outputs) =>
          IF is_root(sched[cur].store) /\ is_root(sched[cur].compute)
          THEN verdict = "ok" ELSE verdict = "user_error_output"
    /\ \A fn \in outputs :
          (pc \in {"validate", "splice", "strip", "user_error"} /\ spliced[fn] # "none") =>
              /\ spliced[fn] = "injected"
              /\ s.k = "For" /\ s.var = "__root"
              /\ PCOutsideLoops(s.kids[1], fn)

\* the output has been injected although nothing in the statement uses it
C3_Witness ==
    /\ pc = "validate" /\ spliced["h"] = "injected"
    /\ ~function_is_used_in_stmt("h", s.kids[1].kids[3])
    /\ PCOutsideLoops(s.kids[1], "h")


(***************************************************************************)
(* Properties of the realisation injector                                  *)
(***************************************************************************)
RECURSIVE CountNodes(_, _, _)
RECURSIVE CountKids(_, _, _, _)
CountKids(kids, j, k, fn) ==
    IF j > Len(kids) THEN 0
    ELSE CountNodes(kids[j], k, fn) + CountKids(kids, j + 1, k, fn)
\* the number of nodes of kind k that belong to fn
CountNodes(stmt, k, fn) ==
    (IF stmt.k = k /\ stmt.fn = fn THEN 1 ELSE 0) + CountKids(stmt.kids, 1, k, fn)

\* C9 as stated: the injector run again for an injected function returns
\* the statement unchanged.
C9_ReinjectNoChange == pc = "reinjected" => reinj.st = s

\* C9 amended: the injector run again for an injected function wraps a second
\* ProducerConsumer (and, for a function that is not an output, a second
\* Realize) around each one that is there, so the statement changes.
C9_ReinjectWrapsAgain ==
    pc = "reinjected" =>
        /\ reinj.st # s
        /\ CountNodes(s, "PC", reinj.fn) >= 1
        /\ CountNodes(reinj.st, "PC", reinj.fn) = 2 * CountNodes(s, "PC", reinj.fn)
        /\ CountNodes(reinj.st, "Realize", reinj.fn) =
              2 * CountNodes(s, "Realize", reinj.fn)
        /\ (reinj.fn \notin outputs) => CountNodes(s, "Realize", reinj.fn) >= 1

C9_Witness ==
    /\ pc = "reinjected" /\ reinj.fn \notin outputs
    /\ CountNodes(s, "PC", reinj.fn) = 1
    /\ CountNodes(reinj.st, "PC", reinj.fn) = 2
    /\ CountNodes(reinj.st, "Realize", reinj.fn) = 2

(***************************************************************************)
(* Properties of schedule_functions                                        *)
(***************************************************************************)
\* the functions of order[idx + 1 ..] have been spliced in, the others not
SplicedDownTo(i) ==
    \A j \in 1..Len(order) : (spliced[order[j]] # "none") <=> (j > i)

\* C16: schedule_functions takes the functions from the last of the
\* realisation order (the output) to the first; a function is spliced in only
\* after validate_schedule has accepted it against the statement built so
\* far; it is inlined exactly when its definition is pure with no update and
\* its compute_at is inline, and injected otherwise; and the statement
\* returned has no Realize and no ProducerConsumer of an inlined function.
C16_ScheduleFunctions ==
    /\ [](pc \in {"validate", "splice", "user_error", "internal_error"} =>
            SplicedDownTo(idx))
    /\ [][\A fn \in Funcs :
            spliced'[fn] # spliced[fn] =>
                /\ fn = order[idx] /\ idx' = idx - 1
                /\ pc = "splice" /\ verdict = "ok"
                /\ verdict = validate_schedule(fn, sched[fn].store, sched[fn].compute,
                                               s, fn \in outputs)
                /\ spliced[fn] = "none"
                /\ spliced'[fn] =
                      IF kind[fn] = "pure" /\ sched[fn].compute.var = ""
                      THEN "inlined" ELSE "injected"]_vars
    /\ [](\A fn \in Funcs :
            spliced[fn] = "inlined" =>
                /\ CountNodes(s, "Realize", fn) = 0
                /\ CountNodes(s, "PC", fn) = 0)
    /\ [](pc = "done" => SplicedDownTo(0))

\* h(x, y) = g(x) + ..., g(x) = f(x) * 2 with f inline: f has been inlined
\* into g after g and h were injected, and the statement is returned
C16_Witness ==
    /\ pc = "done"
    /\ calls["g"] = {"f"}
    /\ spliced = [f |-> "inlined", g |-> "injected", h |-> "injected"]
    /\ CountNodes(s, "PC", "g") = 1
    /\ CountNodes(s, "PC", "f") = 0 /\ CountNodes(s, "Realize", "f") = 0

\* validate_schedule has just been run for order[idx]
Validated(fn) == pc \in {"splice", "user_error"} /\ order[idx] = fn

FullyInline(fn) == is_inline(sched[fn].store) /\ is_inline(sched[fn].compute)

\* C21 as stated: a function whose store_at and compute_at are both inline
\* is accepted by validate_schedule, whatever the function, the statement and
\* the uses.
C21_AsStated ==
    \A fn \in Funcs : (Validated(fn) /\ FullyInline(fn)) => verdict = "ok"

\* C21: a function whose store_at and compute_at are both inline is accepted
\* by validate_schedule whatever the statement and the uses, unless it is an
\* output, which must be at root, or an extern function one of whose function
\* arguments is computed inline; these two get a user error.
C21_InlineLegal ==
    \A fn \in Funcs :
        (Validated(fn) /\ FullyInline(fn)) =>
            verdict = IF InlineExternInput(fn) THEN "user_error_extern"
                      ELSE IF fn \in outputs THEN "user_error_output"
                      ELSE "ok"

\* f, inline and read by g inside the loop nest of h, has been accepted
C21_Witness ==
    /\ Validated("f") /\ FullyInline("f") /\ verdict = "ok"
    /\ function_is_used_in_stmt("f", s)
    /\ legal_sites("f", s) # <<>>

(***************************************************************************)
(* Properties of device propagation                                        *)
(***************************************************************************)
\* the paths (child indices from the top) of all nodes of a statement
RECURSIVE Paths(_)
Paths(stmt) ==
    {<<>>} \cup UNION { { <<j>> \o q : q \in Paths(stmt.kids[j]) } :
                          j \in 1..Len(stmt.kids) }

RECURSIVE NodeAt(_, _)
NodeAt(stmt, path) ==
    IF path = <<>> THEN stmt ELSE NodeAt(stmt.kids[Head(path)], Tail(path))

Prefix(path, n) == SubSeq(path, 1, n)

\* the tagged loops among a For and the loops that enclose it, as prefix lengths
TaggedAbove(stmt, path) ==
    { n \in 0..Len(path) :
        LET a == NodeAt(stmt, Prefix(path, n)) IN a.k = "For" /\ a.d # "Parent" }

SetMax(S) == CHOOSE m \in S : \A n \in S : n <= m

\* the tag of the nearest enclosing-or-self loop that has one, else Host
NearestTag(stmt, path) ==
    IF TaggedAbove(stmt, path) = {} THEN "Host"
    ELSE NodeAt(stmt, Prefix(path, SetMax(TaggedAbove(stmt, path)))).d

\* C6: in the statement schedule_functions returns, every For carries the tag
\* of the nearest enclosing-or-self loop whose own tag was not Parent, Host
\* when there is none; no For is left tagged Parent.
C6_DevicePropagation ==
    pc = "done" =>
        /\ Paths(s) = Paths(unprop)
        /\ \A p \in Paths(unprop) :
              NodeAt(unprop, p).k = "For" =>
                 /\ NodeAt(s, p).k = "For"
                 /\ NodeAt(s, p).d = NearestTag(unprop, p)
                 /\ NodeAt(s, p).d # "Parent"

\* path q comes before path p and is not one of its ancestors
Before(q, p) ==
    \E n \in 1..Len(q) :
        /\ n <= Len(p) /\ Prefix(q, n - 1) = Prefix(p, n - 1) /\ q[n] < p[n]

\* a Parent loop inherits GPU from a loop around it, and a Parent loop that
\* follows a device-tagged loop as a sibling ends up Host
C6_Witness ==
    /\ pc = "done"
    /\ \E p \in Paths(unprop) :
          /\ NodeAt(unprop, p).k = "For" /\ NodeAt(unprop, p).d = "Parent"
          /\ NodeAt(s, p).d = "GPU"
    /\ \E p \in Paths(unprop) : \E q \in Paths(unprop) :
          /\ NodeAt(unprop, p).k = "For" /\ NodeAt(unprop, p).d = "Parent"
          /\ NodeAt(unprop, q).k = "For" /\ NodeAt(unprop, q).d = "GPU"
          /\ Before(q, p)
          /\ NodeAt(s, p).d = "Host"


(***************************************************************************)
(* Properties of one run of the realisation injector                       *)
(***************************************************************************)
\* the For loops of a statement that match a loop level, as paths
LoopsAt(stmt, l) ==
    { p \in Paths(stmt) : NodeAt(stmt, p).k = "For" /\ matchLoop(l, NodeAt(stmt, p)) }

\* path q is path p or lies below it
AtOrInside(q, p) == Len(q) >= Len(p) /\ Prefix(q, Len(p)) = p

\* path q is visited before the For at path p is matched: the body of a For
\* is mutated before its levels are tested, siblings go left to right
VisitedBefore(q, p) == AtOrInside(q, p) \/ Before(q, p)

\* the run of the injector that schedule_functions has just accepted
Injected(fn) == spliced[fn] = "none" /\ spliced'[fn] = "injected"

\* every Realize of fn has a ProducerConsumer of fn inside it
RealizeEnclosesPC(stmt, fn) ==
    \A p \in Paths(stmt) :
        (NodeAt(stmt, p).k = "Realize" /\ NodeAt(stmt, p).fn = fn) =>
            CountNodes(NodeAt(stmt, p), "PC", fn) >= 1

\* an injector run that ends with a flag missing or with the failed
\* assertion is an internal error, and nothing is spliced
FlagsOrError ==
    /\ [][\A fn \in Funcs : Injected(fn) => (found'.fs /\ found'.fc /\ ~found'.af)]_vars
    /\ [][(pc = "splice" /\ pc' # "internal_error"
              /\ ~(kind[cur] = "pure" /\ is_inline(sched[cur].compute))) =>
            Injected(cur)]_vars
    /\ [][pc' = "internal_error" => (s' = s /\ spliced' = spliced)]_vars

MaxSplits == 3
Factors == {2, 4}
Extents == {7, 8}

Split(old_var, outer, inner, factor, exact, partial, split_type) ==
    [old_var |-> old_var, outer |-> outer, inner |-> inner, factor |-> factor,
     exact |-> exact, partial |-> partial, split_type |-> split_type]

is_split(sp) == sp.split_type = "SplitVar"
is_rename(sp) == sp.split_type = "RenameVar"
is_fuse(sp) == sp.split_type = "FuseVars"

NoName == <<"", 0>>
unique_name(n) == <<"s", n>>
EmptyMap == [v \in {} |-> 0]
Put(map, v, e) == [w \in DOMAIN map \cup {v} |-> IF w = v THEN e ELSE map[w]]

\* the variables an earlier split of the list has produced
Derived(list) ==
    UNION { IF is_fuse(list[j]) THEN {list[j].old_var}
            ELSE {list[j].outer, list[j].inner} \ {NoName} : j \in 1..Len(list) }

RemoveAt(list, i) == SubSeq(list, 1, i - 1) \o SubSeq(list, i + 1, Len(list))

\* the swaps that push splits[j] back to just after splits[i]
MoveAfter(list, i, j) ==
    SubSeq(list, 1, i) \o <<list[j]>> \o SubSeq(list, i + 1, j - 1)
        \o SubSeq(list, j + 1, Len(list))

\* the rewrite of a chained pair (first, second) around the fresh name sname
RewriteFirst(first, second, sname) ==
    [first EXCEPT !.exact = first.exact \/ second.exact,
                  !.outer = second.outer,
                  !.inner = sname,
                  !.factor = first.factor * second.factor]

\* a rewrite that leaves the second split its own factor
RewriteSecond_OwnFactor(first, second, sname) ==
    [second EXCEPT !.exact = first.exact \/ second.exact,
                   !.old_var = sname,
                   !.outer = second.inner,
                   !.inner = first.inner]

RewriteSecond(first, second, sname) ==
    [second EXCEPT !.exact = first.exact \/ second.exact,
                   !.old_var = sname,
                   !.outer = second.inner,
                   !.inner = first.inner,
                   !.factor = first.factor]

\* the rename branch: second takes the rename's old_var, the rename is
\* dropped, and j is set to i+1, which the loop's j++ turns into i+2
RenameBranchJ(i) == (i + 1) + 1

\* the two loops of the rebalancing pass, from the pair (i, j) on (1-based);
\* the result is the list and the unique_name counter
RECURSIVE Rebalance(_, _, _, _)
Rebalance(list, i, j, u) ==
    IF i > Len(list) THEN [splits |-> list, uniq |-> u]
    ELSE IF j > Len(list) THEN Rebalance(list, i + 1, i + 2, u)
    ELSE IF list[i].outer = list[j].old_var
    THEN IF is_rename(list[i])
         THEN Rebalance(RemoveAt([list EXCEPT ![j].old_var = list[i].old_var], i),
                        i, RenameBranchJ(i), u)
         ELSE LET sname == unique_name(u)
                  l2 == [list EXCEPT ![i] = RewriteFirst(list[i], list[j], sname),
                                     ![j] = RewriteSecond(list[i], list[j], sname)]
              IN Rebalance(MoveAfter(l2, i, j), i, j + 1, u + 1)
    ELSE Rebalance(list, i, j + 1, u)

rebalance_splits(list, u) == Rebalance(list, 1, 2, u)

\* a check that takes any known size of the old variable as proof
ProvenToDivide_KnownOnly(map, sp) == sp.old_var \in DOMAIN map

\* is_zero(simplify(extent % factor)) for a dim of known size
ProvenToDivide(map, sp) ==
    sp.old_var \in DOMAIN map /\ map[sp.old_var] % sp.factor = 0

\* known_size_dims after one split of the list has been handled
KnownAfter(map, sp) ==
    IF is_split(sp)
    THEN LET m1 == Put(map, sp.inner, sp.factor)
         IN IF ProvenToDivide(m1, sp)
            THEN Put(m1, sp.outer, m1[sp.old_var] \div sp.factor) ELSE m1
    ELSE IF is_fuse(sp)
    THEN IF sp.inner \in DOMAIN map /\ sp.outer \in DOMAIN map
         THEN Put(map, sp.old_var, map[sp.inner] * map[sp.outer]) ELSE map
    ELSE map

\* the branch that raises the user error of an exact split
ExactSplitFails(map, sp) ==
    is_split(sp) /\ ~ProvenToDivide(Put(map, sp.inner, sp.factor), sp) /\ sp.exact

(***************************************************************************)
(* The schedule calls that build s.splits(), then build_provide_loop_nest  *)
(***************************************************************************)
X0 == <<"x", 0>>
NewName(base) == <<base, Len(usplits) + 1>>

InitSplits ==
    /\ usplits = <<>>
    /\ live = {X0}
    /\ extent \in {EmptyMap} \cup { [v \in {X0} |-> e] : e \in Extents }
    /\ splits = <<>> /\ uniq = 0
    /\ npc = "schedule"
    /\ known_size_dims = EmptyMap
    /\ err = <<>>
    /\ stmt_out = Undef
    /\ again = <<>>
    /\ sidx = 0
    /\ LoweringIdle
    /\ PartitionerIdle
    /\ AdvisorIdle
    /\ EmitIdle

SchedUnchanged == UNCHANGED <<extent, splits, uniq, npc, known_size_dims, err,
                              stmt_out, again, sidx, xsp>>

\* Func::split(old, outer, inner, factor)
AddSplit ==
    /\ npc = "schedule" /\ Len(usplits) < MaxSplits
    /\ \E v \in live : \E fac \in Factors : \E ex \in BOOLEAN :
         /\ usplits' = Append(usplits, Split(v, NewName("o"), NewName("i"), fac,
                                             ex, FALSE, "SplitVar"))
         /\ live' = (live \ {v}) \cup {NewName("o"), NewName("i")}
    /\ SchedUnchanged

\* Func::rename(old, new) of a variable no split has produced
AddRename ==
    /\ npc = "schedule" /\ Len(usplits) < MaxSplits
    /\ \E v \in live \ Derived(usplits) :
         /\ usplits' = Append(usplits, Split(v, NewName("r"), NoName, 1,
                                             FALSE, FALSE, "RenameVar"))
         /\ live' = (live \ {v}) \cup {NewName("r")}
    /\ SchedUnchanged

\* Func::fuse(inner, outer, fused)
AddFuse ==
    /\ npc = "schedule" /\ Len(usplits) < MaxSplits
    /\ \E vi \in live : \E vo \in live \ {vi} :
         /\ usplits' = Append(usplits, Split(NewName("u"), vo, vi, 0,
                                             TRUE, FALSE, "FuseVars"))
         /\ live' = (live \ {vi, vo}) \cup {NewName("u")}
    /\ SchedUnchanged

\* entry of build_provide_loop_nest: the known sizes are seeded and the
\* copy of the split list is rebalanced
RebalanceSplits ==
    /\ npc = "schedule"
    /\ known_size_dims' = extent
    /\ LET r == rebalance_splits(usplits, uniq)
       IN splits' = r.splits /\ uniq' = r.uniq
    /\ npc' = "splits" /\ sidx' = 1
    /\ UNCHANGED <<usplits, live, extent, err, stmt_out, again, xsp>>

\* the user error of an exact split; the message prints iter->second, which
\* is the extent when the old variable has a known size
UserError(map, sp) ==
    [old_var |-> sp.old_var, outer |-> sp.outer, inner |-> sp.inner,
     factor |-> sp.factor,
     extent |-> IF sp.old_var \in DOMAIN map THEN <<map[sp.old_var]>> ELSE <<>>]

\* one round of the loop over the rebalanced splits.  When the old variable
\* has no known size the error message dereferences the end iterator: the
\* run then either reports the error or crashes.
ProcessSplit ==
    /\ npc = "splits" /\ sidx <= Len(splits)
    /\ LET sp == splits[sidx]
       IN IF ExactSplitFails(known_size_dims, sp)
          THEN /\ err' = UserError(known_size_dims, sp)
               /\ IF sp.old_var \in DOMAIN known_size_dims
                  THEN npc' = "user_error"
                  ELSE npc' \in {"user_error", "crash"}
               /\ UNCHANGED <<known_size_dims, sidx>>
          ELSE /\ known_size_dims' = KnownAfter(known_size_dims, sp)
               /\ sidx' = sidx + 1
               /\ UNCHANGED <<npc, err>>
    /\ UNCHANGED <<usplits, live, extent, splits, uniq, stmt_out, again, xsp>>

\* the rest of build_provide_loop_nest: the loops wrapped around the store
FinishNest ==
    /\ npc = "splits" /\ sidx > Len(splits)
    /\ stmt_out' = build_provide_loop_nest("f", 0, {},
                       <<Dim("__outermost", "Serial", "Parent")>>)
    /\ npc' = "done"
    /\ UNCHANGED <<usplits, live, extent, splits, uniq, known_size_dims, err,
                   again, sidx, xsp>>

\* the rebalancing pass run once more on the list it produced
RebalanceAgain ==
    /\ npc = "splits" /\ sidx = 1
    /\ LET r == rebalance_splits(splits, uniq)
       IN again' = <<r.splits, r.uniq>>
    /\ npc' = "rebalanced_again"
    /\ UNCHANGED <<usplits, live, extent, splits, uniq, known_size_dims, err,
                   stmt_out, sidx, xsp>>

NextSplits ==
    \/ AddSplit
    \/ AddRename
    \/ AddFuse
    \/ RebalanceSplits
    \/ ProcessSplit
    \/ FinishNest
    \/ RebalanceAgain

SpecSplit == InitSplits /\ [][NextSplits]_vars


(***************************************************************************)
(* Properties of the split list                                            *)
(***************************************************************************)
NextSplit == splits[sidx]
OldExtentKnown == NextSplit.old_var \in DOMAIN known_size_dims

\* what C4 asks of one round of the loop over an exact or a dividing split
C4_Round ==
    (is_split(NextSplit) /\ OldExtentKnown) =>
        IF known_size_dims[NextSplit.old_var] % NextSplit.factor = 0
        THEN /\ npc' = "splits" /\ err' = <<>>
             /\ NextSplit.outer \in DOMAIN known_size_dims'
             /\ known_size_dims'[NextSplit.outer] =
                    known_size_dims[NextSplit.old_var] \div NextSplit.factor
        ELSE NextSplit.exact =>
             /\ npc' = "user_error"
             /\ err'.old_var = NextSplit.old_var
             /\ err'.factor = NextSplit.factor
             /\ err'.extent = <<known_size_dims[NextSplit.old_var]>>
             /\ stmt_out' = Undef

\* C4: a round of the split loop over an exact SplitVar whose factor does not
\* divide the known extent of the old variable raises the user error naming the
\* variable and the factor, and no statement is ever emitted after it; a round
\* over a SplitVar whose factor divides the known extent raises no error and
\* sets known_size_dims[outer] to extent / factor.
C4_ExactSplit ==
    /\ [][ProcessSplit => C4_Round]_vars
    /\ [](npc = "user_error" => stmt_out = Undef /\ ~(ENABLED NextSplits))

\* extent 7 split by 4, exact: the error names (7, 4)
C4_Witness ==
    /\ npc = "user_error"
    /\ err.extent = <<7>> /\ err.factor = 4 /\ err.old_var = X0
    /\ stmt_out = Undef

\* a pair the rebalancing pass is there to remove
Chained(list) ==
    \E i \in 1..Len(list) : \E j \in (i + 1)..Len(list) :
        list[i].outer = list[j].old_var

\* C5 as stated: the rebalancing pass applied to its own output returns the
\* same list, takes no fresh name, and its output holds no chained pair.
C5_Idempotent ==
    npc = "rebalanced_again" =>
        /\ again = <<splits, uniq>>
        /\ ~Chained(splits)

\* the values the variables of a pair are tried with, and those of the
\* leaves of a whole list (the value of the arg is linear in its leaves)
IndexValues == 0..2
LeafValues == 0..1

\* the split or rename of the list that defines var, if there is one
Defining(list, var) ==
    { k \in 1..Len(list) : ~is_fuse(list[k]) /\ list[k].old_var = var }

\* the variables of the list that no split or rename defines
Leaves(list) ==
    ({X0} \cup UNION { {list[k].outer, list[k].inner} \ {NoName} :
                         k \in { n \in 1..Len(list) : ~is_fuse(list[n]) } })
        \ { list[k].old_var : k \in { n \in 1..Len(list) : ~is_fuse(list[n]) } }

\* the value of var under the splits and renames of the list, given the
\* values of the leaves: old = factor * outer + inner
RECURSIVE ValueOf(_, _, _)
ValueOf(list, var, at) ==
    IF Defining(list, var) = {} THEN at[var]
    ELSE LET sp == list[CHOOSE k \in Defining(list, var) : TRUE]
         IN IF is_rename(sp) THEN ValueOf(list, sp.outer, at)
            ELSE sp.factor * ValueOf(list, sp.outer, at) + ValueOf(list, sp.inner, at)

\* a chained pair of splits of the list the schedule calls have built
ChainedSplits(list) ==
    { p \in (1..Len(list)) \X (1..Len(list)) :
        /\ p[1] < p[2] /\ is_split(list[p[1]]) /\ is_split(list[p[2]])
        /\ list[p[1]].outer = list[p[2]].old_var }

\* the rewrite of the pair (first, second) keeps the value of X for all
\* values of (Xoo, Xoi, Xi) and gives both splits the union of the flags
RewriteKeepsIndex(first, second) ==
    LET sname == unique_name(uniq)
        F == RewriteFirst(first, second, sname)
        S == RewriteSecond(first, second, sname)
    IN /\ F.old_var = first.old_var /\ F.inner = sname /\ S.old_var = sname
       /\ F.outer = second.outer /\ S.outer = second.inner /\ S.inner = first.inner
       /\ F.factor = first.factor * second.factor
       /\ \A xoo \in IndexValues : \A xoi \in IndexValues : \A xi \in IndexValues :
             first.factor * (second.factor * xoo + xoi) + xi
                 = F.factor * xoo + (S.factor * xoi + xi)
       /\ F.exact = (first.exact \/ second.exact)
       /\ S.exact = (first.exact \/ second.exact)

\* C22: the rewrite of a chained pair X -> a*Xo + Xi, Xo -> b*Xoo + Xoi into
\* X -> (a*b)*Xoo + s, s -> a*Xoi + Xi gives the same X for every value of
\* (Xoo, Xoi, Xi) and both rewritten splits carry the union of the two exact
\* flags; so the list the pass returns maps the values of its leaf variables
\* to the same value of the function arg as the list it was given.
C22_ChainedSplit ==
    /\ \A p \in ChainedSplits(usplits) :
          RewriteKeepsIndex(usplits[p[1]], usplits[p[2]])
    /\ (npc = "splits" /\ sidx = 1) =>
          /\ Leaves(splits) = Leaves(usplits)
          /\ \A at \in [Leaves(usplits) -> LeafValues] :
                ValueOf(splits, X0, at) = ValueOf(usplits, X0, at)

\* x was split by 2 and its outer part by 4, the outer split exact: the pass
\* has rewritten the pair into a split of x by 8 and a split of s by 2, both
\* exact
C22_Witness ==
    /\ npc = "splits"
    /\ Len(usplits) = 2 /\ ChainedSplits(usplits) = {<<1, 2>>}
    /\ usplits[1].factor = 2 /\ usplits[2].factor = 4
    /\ ~usplits[1].exact /\ usplits[2].exact
    /\ Len(splits) = 2
    /\ splits[1].old_var = X0 /\ splits[1].factor = 8 /\ splits[1].exact
    /\ splits[1].inner = splits[2].old_var
    /\ splits[2].factor = 2 /\ splits[2].exact
    /\ splits[2].outer = usplits[2].inner /\ splits[2].inner = usplits[1].inner

\* where the split sp stands in the list, 0 when it is not there
PositionOf(list, sp) ==
    IF \E k \in 1..Len(list) : list[k] = sp
    THEN CHOOSE k \in 1..Len(list) : list[k] = sp
    ELSE 0

\* the splits of the input that the pass has rewritten nowhere
Unrewritten == { k \in 1..Len(usplits) : PositionOf(splits, usplits[k]) # 0 }

\* two splits that took part in no rewrite stand in the order they had
UnrelatedKeepOrder ==
    npc = "splits" =>
        \A k1 \in Unrewritten : \A k2 \in Unrewritten :
            k1 < k2 => PositionOf(splits, usplits[k1]) < PositionOf(splits, usplits[k2])

\* C23: in the list the rebalancing pass returns no split's old variable is
\* the outer of an earlier split, and two splits that took part in no chain
\* or rename rewrite keep the relative order they had in the input list.
C23_Normalised ==
    npc = "splits" =>
        /\ ~Chained(splits)
        /\ \A k1 \in Unrewritten : \A k2 \in Unrewritten :
              k1 < k2 => PositionOf(splits, usplits[k1]) < PositionOf(splits, usplits[k2])


(***************************************************************************)
(* The auto-scheduler: the dependence analysis behind the Partitioner.     *)
(* analy describes a stencil pipeline: calls is the call graph, est the    *)
(* extent estimate of every arg (-1 when unknown), mem the loads per point *)
(* (get_func_mem) and w the width of a call's footprint: a consumer reads  *)
(* its producer at x .. x + w.  Producers are one-dimensional.  With w =    *)
(* NoBound the index of the call depends on data whose values have no      *)
(* known bound, so the upper end of the region required is no constant.    *)
(***************************************************************************)
OutputBytes == 4
OpCost(fn) == 1

\* Partitioner::arch_params
arch_params ==
    [parallelism |-> 8, vec_len |-> 8, fast_mem_size |-> 32 * 1024 * 8,
     inline_size |-> 32 * 4, balance_fast_mem |-> 10, balance_inline |-> 4]

size_variants == <<256, 128, 64, 32, 16, 8>>

Max2(a, b) == IF a >= b THEN a ELSE b
Min2(a, b) == IF a <= b THEN a ELSE b

RECURSIVE SumOver(_, _)
SumOver(S, val) ==
    IF S = {} THEN 0
    ELSE LET x == CHOOSE y \in S : TRUE IN val[x] + SumOver(S \ {x}, val)

\* the length of the longest call path from consumer c down to p, -1 if none
RECURSIVE Depth(_, _)
Depth(p, c) ==
    IF p = c THEN 0
    ELSE LET ds == { Depth(p, q) : q \in analy.calls[c] } \ {-1}
         IN IF ds = {} THEN -1 ELSE 1 + SetMax(ds)

\* the keys of func_dep_regions[c]: every function c needs, directly or not
Deps(c) == { p \in Funcs : Depth(p, c) >= 1 }

\* an Interval; imm says that min and max are both IntImm
Interval(lo, hi) == [min |-> lo, max |-> hi, imm |-> TRUE]
Unbounded(lo) == [min |-> lo, max |-> 0, imm |-> FALSE]

NoBound == -1

\* DependenceAnalysis::concrete_dep_regions: the merged boxes of all the
\* producers, for the output region `bounds` of cons
concrete_dep_regions(cons, bounds) ==
    [p \in Deps(cons) |->
        IF analy.w = NoBound THEN <<Unbounded(bounds[1].min)>>
        ELSE <<Interval(bounds[1].min, bounds[1].max + analy.w * Depth(p, cons))>>]

\* DependenceAnalysis::concrete_overlap_regions: per arg of cons, what the
\* regions required by a tile share with those of the next tile along the arg
concrete_overlap_regions(cons, bounds) ==
    [dir \in 1..Len(bounds) |->
        [p \in Deps(cons) |->
            IF analy.w = NoBound
            THEN <<Unbounded(IF dir = 1 THEN bounds[1].max + 1 ELSE bounds[1].min)>>
            ELSE IF dir = 1
            THEN <<Interval(bounds[1].max + 1,
                            bounds[1].max + analy.w * Depth(p, cons))>>
            ELSE <<Interval(bounds[1].min,
                            bounds[1].max + analy.w * Depth(p, cons))>>]]

get_extent(i) ==
    IF i.imm THEN (IF i.min <= i.max THEN i.max - i.min + 1 ELSE 0) ELSE -1

RECURSIVE BoxAreaFrom(_, _, _)
BoxAreaFrom(b, i, area) ==
    IF i > Len(b) THEN area
    ELSE LET ext == get_extent(b[i])
         IN IF ext > 0 /\ area > 0 THEN BoxAreaFrom(b, i + 1, area * ext)
            ELSE IF ext = 0 THEN 0
            ELSE BoxAreaFrom(b, i + 1, -1)

box_area(b) == BoxAreaFrom(b, 1, 1)

\* region_size(func, region, env)
func_region_size(region) ==
    IF box_area(region) < 0 THEN -1 ELSE box_area(region) * OutputBytes

\* realization_order of the pipeline below `out`
realization_order(out) == SelectSeq(order, LAMBDA fn : fn = out \/ fn \in Deps(out))

\* the loop of region_size over the realization order: the running size and
\* its high-water mark, with a region freed once its consumers have run
RECURSIVE WorkingSet(_, _, _, _, _, _)
WorkingSet(ord, i, sizes, num_consumers, curr_size, working_set_size) ==
    IF i > Len(ord) THEN working_set_size
    ELSE LET fn == ord[i]
             c1 == curr_size + (IF fn \in DOMAIN sizes THEN sizes[fn] ELSE 0)
             nc == [p \in DOMAIN num_consumers |->
                       IF p \in Deps(fn) THEN num_consumers[p] - 1
                       ELSE num_consumers[p]]
             freed == { p \in Deps(fn) \cap DOMAIN sizes : nc[p] = 0 }
         IN WorkingSet(ord, i + 1, sizes, nc, c1 - SumOver(freed, sizes),
                       Max2(c1, working_set_size))

\* region_size(regions, env, func_dep_regions)
region_size(regions) ==
    LET R == DOMAIN regions
        num_consumers == [p \in R |-> Cardinality({ c \in R : p \in Deps(c) })]
        outs == { p \in R : num_consumers[p] = 0 }
        out == CHOOSE p \in outs : TRUE
        sizes == [p \in R |-> func_region_size(regions[p])]
    IN IF \E p \in R : sizes[p] < 0 THEN -1
       ELSE WorkingSet(realization_order(out), 1, sizes, num_consumers, 0, 0)

\* region_cost(func, region, func_cost)
func_region_cost(fn, region) ==
    IF box_area(region) < 0 THEN -1 ELSE box_area(region) * OpCost(fn)

\* region_cost(regions, func_cost)
region_cost(regions) ==
    IF \E p \in DOMAIN regions : func_region_cost(p, regions[p]) < 0 THEN -1
    ELSE SumOver(DOMAIN regions, [p \in DOMAIN regions |-> func_region_cost(p, regions[p])])

\* overlap_cost(cons, prods, overlaps, func_cost, dim)
overlap_cost(cons, prods, overlaps, dim) ==
    LET P == { p \in prods \ {cons} : p \in DOMAIN overlaps[dim] }
    IN IF \E p \in P : box_area(overlaps[dim][p]) < 0 THEN -1
       ELSE SumOver(P, [p \in P |-> box_area(overlaps[dim][p]) * OpCost(p)])

func_dim_estimates(fn) == analy.est[fn]

RECURSIVE SizeFrom(_, _, _)
SizeFrom(est, i, size) ==
    IF i > Len(est) THEN size
    ELSE SizeFrom(est, i + 1, IF est[i] # -1 /\ size # -1 THEN size * est[i] ELSE -1)

func_size(fn) == SizeFrom(analy.est[fn], 1, 1)
func_op(fn) == IF func_size(fn) # -1 THEN OpCost(fn) * func_size(fn) ELSE -1
func_mem(fn) == IF func_size(fn) # -1 THEN analy.mem[fn] * func_size(fn) ELSE -1


(***************************************************************************)
(* Partitioner                                                             *)
(***************************************************************************)
Option(prod_group, cons_group, tile_sizes, benefit, redundant_work) ==
    [prod_group |-> prod_group, cons_group |-> cons_group,
     tile_sizes |-> tile_sizes, benefit |-> benefit,
     redundant_work |-> redundant_work]

\* `Option opt; opt.benefit = -1;`: redundant_work holds no value yet (<<>>)
NoOption == Option("", "", <<>>, -1, <<>>)
NewOption(p, tiles) == Option(p[1], p[2], tiles, -1, <<>>)

\* floats are held as integers; the quotient `hit` in units of 1/FloatScale
FloatScale == 256

RECURSIVE ProductOver(_, _)
ProductOver(sq, i) == IF i > Len(sq) THEN 1 ELSE sq[i] * ProductOver(sq, i + 1)

\* the part of evaluate_option up to the cost model, for an option whose
\* consumer has all its dim estimates
Estimate(opt, l) ==
    LET cons == opt.cons_group
        prod_funcs == groups[opt.prod_group] \o
                      SelectSeq(groups[cons], LAMBDA fn : fn # cons)
        est == func_dim_estimates(cons)
        n == Len(est)
        tile_sizes == [i \in 1..n |->
                          IF opt.tile_sizes[i] # -1 /\ est[i] >= opt.tile_sizes[i]
                          THEN opt.tile_sizes[i] ELSE -1]
        bounds == [i \in 1..n |->
                      Interval(0, (IF tile_sizes[i] # -1 THEN tile_sizes[i]
                                   ELSE est[i]) - 1)]
        estimate_tiles ==
            ProductOver([i \in 1..n |->
                            IF tile_sizes[i] # -1
                            THEN (est[i] + tile_sizes[i] - 1) \div tile_sizes[i]
                            ELSE 1], 1)
        partial_tiles ==
            ProductOver([i \in 1..n |->
                            IF tile_sizes[i] # -1 THEN est[i] \div tile_sizes[i]
                            ELSE 1], 1)
        conc_reg == concrete_dep_regions(cons, bounds)
        conc_overlaps == concrete_overlap_regions(cons, bounds)
        RegionOf(fn) == IF fn \in DOMAIN conc_reg THEN conc_reg[fn] ELSE <<>>
        P == { prod_funcs[i] : i \in 1..Len(prod_funcs) }
        in_mem == { fn \in P : fn \notin DOMAIN inlines \/ l = "INLINE" }
        mem_reg == [fn \in in_mem \cup {cons} |->
                       IF fn = cons THEN bounds ELSE RegionOf(fn)]
        prod_comp == [fn \in P |-> RegionOf(fn)]
        tiled == { i \in 1..n : tile_sizes[i] # -1 }
        dir_red_work == [i \in tiled |-> overlap_cost(cons, P, conc_overlaps, i)]
        red_work_tile == IF \E i \in tiled : dir_red_work[i] = -1 THEN -1
                         ELSE SumOver(tiled, dir_red_work)
        work_per_tile == region_cost(prod_comp)
        total_work == work_per_tile * partial_tiles
        known == \A fn \in P : func_op(fn) # -1
        original_work == SumOver(P, [fn \in P |-> func_op(fn)])
        total_mem == SumOver(P, [fn \in P |-> func_mem(fn)]) + func_mem(cons)
    IN [tile_sizes |-> tile_sizes, estimate_tiles |-> estimate_tiles,
        inter_s |-> region_size(mem_reg), known |-> known,
        red_work_tile |-> red_work_tile, work_per_tile |-> work_per_tile,
        total_work |-> total_work, total_mem |-> total_mem,
        redundant_work |-> Max2(total_work - original_work, 0)]

\* a cost model with the first tier only
Benefit_FirstTier(m, size, balance, benefit) ==
    m.total_mem * balance - m.redundant_work

\* the two footprint tiers of the cost model; the benefit the option came
\* with stays when the footprint exceeds twice the size of the level
Benefit(m, size, balance, benefit) ==
    IF m.inter_s <= size
    THEN m.total_mem * balance - m.redundant_work
    ELSE IF m.inter_s <= 2 * size
    THEN LET hit == (Max2(2 * size - m.inter_s, 0) * FloatScale) \div m.inter_s
             loads_saved == (hit * m.total_mem) \div FloatScale
         IN loads_saved * balance - m.redundant_work
    ELSE benefit

\* no parallelism constraint
TooFewTiles_Never(m) == FALSE

\* an option that fails the parallelism constraint
TooFewTiles(m) == arch_params.parallelism > m.estimate_tiles

evaluate_option(opt, l) ==
    IF \E i \in 1..Len(func_dim_estimates(opt.cons_group)) :
           func_dim_estimates(opt.cons_group)[i] = -1
    THEN [opt EXCEPT !.benefit = -1, !.redundant_work = <<-1>>]
    ELSE LET m == Estimate(opt, l)
         IN IF ~m.known
            THEN [opt EXCEPT !.tile_sizes = m.tile_sizes, !.benefit = -1,
                             !.redundant_work = <<-1>>]
            ELSE [opt EXCEPT
                    !.tile_sizes = m.tile_sizes,
                    !.redundant_work = <<m.redundant_work>>,
                    !.benefit =
                        IF TooFewTiles(m) THEN -1
                        ELSE IF l = "INLINE"
                        THEN Benefit(m, arch_params.inline_size,
                                     arch_params.balance_inline, opt.benefit)
                        ELSE Benefit(m, arch_params.fast_mem_size,
                                     arch_params.balance_fast_mem, opt.benefit)]

\* `assert(total_mem > 0 && total_work > 0)` of an option that gets as far as
\* the cost model; the assertion is compiled out of a build with NDEBUG
AssertionFails(opt, l) ==
    /\ \A i \in 1..Len(func_dim_estimates(opt.cons_group)) :
           func_dim_estimates(opt.cons_group)[i] # -1
    /\ LET m == Estimate(opt, l)
       IN m.known /\ ~(m.total_mem > 0 /\ m.total_work > 0)

\* `if (best_opt.benefit < cand_opt.benefit) best_opt = cand_opt;`
Better(best_opt, cand_opt) ==
    IF best_opt.benefit < cand_opt.benefit THEN cand_opt ELSE best_opt

AllOnes(fn) == [i \in 1..Len(args(fn)) |-> 1]

\* choose_candidate_inline, from the pair of index i on
RECURSIVE ChooseInlineFrom(_, _, _, _)
ChooseInlineFrom(cand_pairs, i, best_opt, cache) ==
    IF i > Len(cand_pairs) THEN [best |-> best_opt, option_cache |-> cache]
    ELSE LET p == cand_pairs[i]
         IN IF p \in DOMAIN cache
            THEN ChooseInlineFrom(cand_pairs, i + 1, Better(best_opt, cache[p]), cache)
            ELSE LET ev == evaluate_option(NewOption(p, AllOnes(p[2])), "INLINE")
                     cand_opt == [ev EXCEPT !.tile_sizes = AllOnes(p[2])]
                 IN ChooseInlineFrom(cand_pairs, i + 1, Better(best_opt, cand_opt),
                                     Put(cache, p, cand_opt))

choose_candidate_inline(cand_pairs, cache) ==
    ChooseInlineFrom(cand_pairs, 1, NoOption, cache)

\* the tile sizes of the options of a consumer with n args, in the order of
\* the two loops: from the outermost arg inwards, every size variant
TileOptions(n) ==
    [k \in 1..(n * Len(size_variants)) |->
        LET i == (n - 1) - ((k - 1) \div Len(size_variants))
            sv == size_variants[((k - 1) % Len(size_variants)) + 1]
        IN [j \in 1..n |-> IF j <= i THEN -1 ELSE sv]]

RECURSIVE BestOfOptions(_, _, _, _)
BestOfOptions(p, opts, k, cand_best_opt) ==
    IF k > Len(opts) THEN cand_best_opt
    ELSE BestOfOptions(p, opts, k + 1,
             Better(cand_best_opt, evaluate_option(NewOption(p, opts[k]), "FAST_MEM")))

\* prod_out_size and the `invalid` flag of a pair
Invalid(p) ==
    LET est == func_dim_estimates(p[1])
        known == SelectSeq(est, LAMBDA e : e # -1)
        prod_out_size == OutputBytes * ProductOver(known, 1)
    IN (\E i \in 1..Len(est) : est[i] = -1)
       \/ prod_out_size < arch_params.fast_mem_size

\* choose_candidate, from the pair of index i on
RECURSIVE ChooseFrom(_, _, _, _)
ChooseFrom(cand_pairs, i, best_opt, cache) ==
    IF i > Len(cand_pairs) THEN [best |-> best_opt, option_cache |-> cache]
    ELSE LET p == cand_pairs[i]
         IN IF p \in DOMAIN cache
            THEN ChooseFrom(cand_pairs, i + 1, Better(best_opt, cache[p]), cache)
            ELSE LET cand_best_opt ==
                         IF Invalid(p) THEN NewOption(p, <<>>)
                         ELSE BestOfOptions(p, TileOptions(Len(args(p[2]))), 1,
                                            NewOption(p, <<>>))
                 IN ChooseFrom(cand_pairs, i + 1, Better(best_opt, cand_best_opt),
                               Put(cache, p, cand_best_opt))

choose_candidate(cand_pairs, cache) == ChooseFrom(cand_pairs, 1, NoOption, cache)

\* an option evaluated in this round fails the assertion of evaluate_option
Asserts(cand_pairs, cache, l) ==
    \E i \in 1..Len(cand_pairs) :
        LET p == cand_pairs[i]
        IN /\ p \notin DOMAIN cache
           /\ IF l = "INLINE"
              THEN AssertionFails(NewOption(p, AllOnes(p[2])), l)
              ELSE /\ ~Invalid(p)
                   /\ \E k \in 1..(Len(args(p[2])) * Len(size_variants)) :
                        AssertionFails(NewOption(p, TileOptions(Len(args(p[2])))[k]), l)


Remove(map, k) == [x \in DOMAIN map \ {k} |-> map[x]]
Lookup(map, k, default) == IF k \in DOMAIN map THEN map[k] ELSE default

\* a merge that leaves the candidate group and its children entry in place
merge_groups_KeepCand(P, cand_group, child_group) ==
    [P EXCEPT !.groups = Put(P.groups, child_group,
                             P.groups[child_group] \o P.groups[cand_group])]

\* a merge that erases the candidate group without moving its members
merge_groups_Lost(P, cand_group, child_group) ==
    [P EXCEPT !.groups = Remove(P.groups, cand_group),
              !.children = Remove(P.children, cand_group)]

\* a merge that leaves the option cache as it is
merge_groups_KeepCache(P, cand_group, child_group) ==
    LET cand_funcs == Lookup(P.groups, cand_group, <<>>)
        erased == Remove(P.groups, cand_group)
        ch == Remove(P.children, cand_group)
    IN [groups |-> Put(erased, child_group,
                       Lookup(erased, child_group, <<>>) \o cand_funcs),
        children |-> [fn \in DOMAIN ch |->
                         IF cand_group \in ch[fn]
                         THEN (ch[fn] \ {cand_group}) \cup {child_group}
                         ELSE ch[fn]],
        option_cache |-> P.option_cache]

\* Partitioner::merge_groups on P = [groups, children, option_cache]
merge_groups(P, cand_group, child_group) ==
    LET cand_funcs == Lookup(P.groups, cand_group, <<>>)
        erased == Remove(P.groups, cand_group)
        ch == Remove(P.children, cand_group)
    IN [groups |-> Put(erased, child_group,
                       Lookup(erased, child_group, <<>>) \o cand_funcs),
        children |-> [fn \in DOMAIN ch |->
                         IF cand_group \in ch[fn]
                         THEN (ch[fn] \ {cand_group}) \cup {child_group}
                         ELSE ch[fn]],
        option_cache |-> [key \in { c \in DOMAIN P.option_cache :
                                      c[1] # child_group /\ c[2] # child_group }
                             |-> P.option_cache[key]]]

\* the group that holds dest, when dest is no group of its own any more
GroupOf(grps, dest) ==
    IF dest \in DOMAIN grps THEN dest
    ELSE CHOOSE g \in DOMAIN grps : \E i \in 1..Len(grps[g]) : grps[g][i] = dest

\* the constructor's loop over the inlines, in the order of the map's keys
RECURSIVE MergeInlines(_, _, _, _)
MergeInlines(P, inl, keys, i) ==
    IF i > Len(keys) THEN P
    ELSE IF keys[i] \in DOMAIN inl
    THEN MergeInlines(merge_groups(P, keys[i], GroupOf(P.groups, inl[keys[i]])),
                      inl, keys, i + 1)
    ELSE MergeInlines(P, inl, keys, i + 1)

Consumers(cg, fn) == { c \in Funcs : fn \in cg[c] }

\* Partitioner::Partitioner: groups, children and option_cache
Partitioner(cg, inl, keys) ==
    MergeInlines([groups |-> [fn \in Funcs |-> <<fn>>],
                  children |-> [fn \in { p \in Funcs : Consumers(cg, p) # {} } |->
                                   Consumers(cg, fn)],
                  option_cache |-> EmptyMap],
                 inl, keys, 1)

GroupSched(tile_sizes, benefit) == [tile_sizes |-> tile_sizes, benefit |-> benefit]

(***************************************************************************)
(* The pipelines the Partitioner is run on                                 *)
(***************************************************************************)
Widths == {0, 4, 8264, NoBound}

\* std::map iterates in the order of the names, which need not be the
\* realisation order: the names sort as the pipeline runs, or against it
KeyOrders == {order, <<"h", "g", "f">>}
EstChoices ==
    [f : {<<-1>>, <<64>>, <<65536>>}, g : {<<-1>>, <<64>>, <<65536>>},
     h : {<<64, 64>>, <<-1, 64>>}]

\* a function that calls another one loads from it
MemChoices(cg) ==
    { mc \in [Funcs -> {0, 1}] : \A fn \in Funcs : cg[fn] # {} => mc[fn] = 1 }

\* simple_inline: a function with one consumer that calls it once
InlineChoices(cg, w) ==
    IF w # 0 THEN {EmptyMap}
    ELSE { [fn \in S |-> CHOOSE c \in Consumers(cg, fn) : TRUE] :
             S \in SUBSET { fn \in Funcs : Cardinality(Consumers(cg, fn)) = 1 } }

InitPartitioner ==
    /\ \E cg \in CallGraphs : \E w \in Widths :
         /\ \E est \in EstChoices : \E mc \in MemChoices(cg) :
              \E keys \in KeyOrders :
                analy = [calls |-> cg, est |-> est, mem |-> mc, w |-> w,
                         keys |-> keys]
         /\ inlines \in InlineChoices(cg, w)
         /\ LET P == Partitioner(cg, inlines, analy.keys)
            IN /\ groups = P.groups
               /\ children = P.children
               /\ option_cache = P.option_cache
               /\ group_sched = [g \in DOMAIN P.groups |->
                                    GroupSched([i \in 1..Len(args(g)) |-> -1], -1)]
    /\ level \in {"INLINE", "FAST_MEM"}
    /\ best = NoOption
    /\ ppc = "loop"
    /\ LoweringIdle
    /\ SplitsIdle
    /\ AdvisorIdle
    /\ EmitIdle

\* candidate pairs that take any group with a child, with one of its children
cand_pairs_AnyChild ==
    LET keys == SelectSeq(analy.keys, LAMBDA g :
                    /\ g \in DOMAIN groups
                    /\ g \in DOMAIN children
                    /\ Cardinality(children[g]) >= 1)
    IN [i \in 1..Len(keys) |-> <<keys[i], CHOOSE c \in children[keys[i]] :
                                    \A d \in children[keys[i]] :
                                        \E j, k \in 1..Len(order) :
                                            order[j] = c /\ order[k] = d /\ j >= k>>]

\* the groups with a single child, in the order of the groups map
cand_pairs ==
    LET keys == SelectSeq(analy.keys, LAMBDA g :
                    /\ g \in DOMAIN groups
                    /\ g \in DOMAIN children
                    /\ Cardinality(children[g]) = 1)
    IN [i \in 1..Len(keys) |-> <<keys[i], CHOOSE c \in children[keys[i]] : TRUE>>]

\* Partitioner::group, one round of the loop: the candidate pairs and the
\* option chosen among them (in a build with NDEBUG also when an assertion
\* of evaluate_option would have failed)
ChooseCandidate ==
    /\ ppc = "loop"
    /\ LET r == IF level = "INLINE"
                THEN choose_candidate_inline(cand_pairs, option_cache)
                ELSE choose_candidate(cand_pairs, option_cache)
       IN best' = r.best /\ option_cache' = r.option_cache
    /\ ppc' = "chosen"
    /\ UNCHANGED <<analy, inlines, level, groups, children, group_sched, xpt>>

\* an assertion of evaluate_option fails in a build that keeps assertions:
\* the process is aborted
AssertAbort ==
    /\ ppc = "loop"
    /\ Asserts(cand_pairs, option_cache, level)
    /\ ppc' = "abort"
    /\ UNCHANGED <<analy, inlines, level, groups, children, group_sched,
                   option_cache, best, xpt>>

\* `if (best.benefit != -1)`: the merge of the chosen pair
ApplyMerge ==
    /\ ppc = "chosen" /\ best.benefit # -1
    /\ inlines' = IF level = "INLINE"
                  THEN Put(inlines, best.prod_group, best.cons_group) ELSE inlines
    /\ LET P == merge_groups([groups |-> groups, children |-> children,
                              option_cache |-> option_cache],
                             best.prod_group, best.cons_group)
       IN /\ groups' = P.groups
          /\ children' = P.children
          /\ option_cache' = P.option_cache
    /\ group_sched' = Put(group_sched, best.cons_group,
                          GroupSched(best.tile_sizes, best.benefit))
    /\ ppc' = "loop"
    /\ UNCHANGED <<analy, level, best, xpt>>

\* no option with a benefit: the fixpoint
Fixpoint ==
    /\ ppc = "chosen" /\ best.benefit = -1
    /\ ppc' = "done"
    /\ UNCHANGED <<analy, inlines, level, groups, children, group_sched,
                   option_cache, best, xpt>>

NextPartitioner ==
    \/ ChooseCandidate
    \/ AssertAbort
    \/ ApplyMerge
    \/ Fixpoint

SpecPartitioner == InitPartitioner /\ [][NextPartitioner]_vars


(***************************************************************************)
(* Properties of the Partitioner                                           *)
(***************************************************************************)
NumGroups == Cardinality(DOMAIN groups)

\* the variant of the loop of Partitioner::group: the rounds still possible
\* and the position inside the round
Variant ==
    IF ppc \in {"done", "abort"} THEN 0
    ELSE 2 * NumGroups + (IF ppc = "loop" THEN 1 ELSE 0)

\* C7: Partitioner::group terminates for every pipeline: a round either
\* applies a merge, which strictly decreases the number of groups, or finds no
\* option with a benefit other than -1 and stops.  Every step of the loop
\* decreases Variant, which stays positive until the loop has returned, so no
\* run takes more than 2 * |Funcs| + 1 steps; each position short of "done"
\* has a step to take.
C7_GroupTerminates ==
    /\ [][NextPartitioner => (Variant' < Variant /\ Variant' >= 0)]_vars
    /\ [][ApplyMerge => Cardinality(DOMAIN groups') < NumGroups]_vars
    /\ [][(ppc = "chosen" /\ best.benefit = -1) => ppc' = "done"]_vars
    /\ [](ppc \in {"loop", "chosen", "done", "abort"} /\ NumGroups >= 1)

\* the loop has returned after two merges: a single group is left
C7_Witness ==
    /\ ppc = "done"
    /\ inlines = EmptyMap
    /\ NumGroups = 1
    /\ level = "FAST_MEM"
    /\ group_sched["h"].benefit > 0

\* C8 as stated: a merge is applied only for an option of strictly positive
\* benefit.
C8_PositiveBenefit == [][ApplyMerge => best.benefit > 0]_vars

\* the places (group, position) at which fn is a member of a group
Memberships(fn) ==
    { m \in UNION { { <<g, i>> : i \in 1..Len(groups[g]) } : g \in DOMAIN groups } :
        groups[m[1]][m[2]] = fn }

\* C13: after the constructor and after every merge of Partitioner::group
\* each function of the environment is a member of exactly one group, once:
\* none is lost and none is in two groups; every group is keyed by a function
\* and has a member.
C13_GroupsPartition ==
    ppc \in {"loop", "chosen", "done"} =>
        /\ \A fn \in Funcs : Cardinality(Memberships(fn)) = 1
        /\ \A g \in DOMAIN groups :
             /\ g \in Funcs /\ Len(groups[g]) >= 1
             /\ \A i \in 1..Len(groups[g]) : groups[g][i] \in Funcs

\* the constructor has put the inlined g into the group of h, and a merge of
\* Partitioner::group has added f to it
C13_Witness ==
    /\ ppc = "loop"
    /\ level = "FAST_MEM"
    /\ inlines = [g |-> "h"]
    /\ groups = [h |-> <<"h", "g", "f">>]

\* the functions of a group
Members(g) == { groups[g][i] : i \in 1..Len(groups[g]) }

\* the group graph: an edge from a to b when a member of b calls a member of a
GroupEdges ==
    { e \in (DOMAIN groups) \X (DOMAIN groups) :
        /\ e[1] # e[2]
        /\ \E p \in Members(e[1]) : \E c \in Members(e[2]) : p \in analy.calls[c] }

\* the groups reached from g along at most n edges
RECURSIVE Reached(_, _)
Reached(g, n) ==
    IF n = 0 THEN {g}
    ELSE LET r == Reached(g, n - 1)
         IN r \cup { b \in DOMAIN groups : \E a \in r : <<a, b>> \in GroupEdges }

Acyclic ==
    \A e \in GroupEdges : e[1] \notin Reached(e[2], Cardinality(DOMAIN groups))

\* the groups that consume a member of g
ConsumerGroups(g) == { e[2] : e \in { x \in GroupEdges : x[1] = g } }

\* C14: the group graph stays acyclic through the constructor and every
\* merge; the children map of a group lists the groups that consume it; and
\* the pair Partitioner::group merges is a group with exactly one child,
\* paired with that child, its only consumer group.
C14_AcyclicUniqueChild ==
    ppc \in {"loop", "chosen", "done"} =>
        /\ Acyclic
        /\ \A g \in DOMAIN groups : Lookup(children, g, {}) = ConsumerGroups(g)
        /\ \A i \in 1..Len(cand_pairs) :
             /\ children[cand_pairs[i][1]] = {cand_pairs[i][2]}
             /\ cand_pairs[i][1] \in DOMAIN groups
             /\ cand_pairs[i][2] \in DOMAIN groups
        /\ (ppc = "chosen" /\ best.benefit # -1) =>
             /\ \E i \in 1..Len(cand_pairs) :
                  cand_pairs[i] = <<best.prod_group, best.cons_group>>
             /\ ConsumerGroups(best.prod_group) = {best.cons_group}

\* f is called by g and by h; once g has been merged into h, f has the one
\* consumer group h and the pair (f, h) is chosen
C14_Witness ==
    /\ ppc = "chosen" /\ best.benefit # -1
    /\ analy.calls = [f |-> {}, g |-> {"f"}, h |-> {"f", "g"}]
    /\ inlines = EmptyMap
    /\ groups = [f |-> <<"f">>, h |-> <<"h", "g">>]
    /\ best.prod_group = "f" /\ best.cons_group = "h"

\* the functions evaluate_option takes as the producers of an option
prod_funcs(opt) ==
    Members(opt.prod_group) \cup (Members(opt.cons_group) \ {opt.cons_group})

\* a metric of the dependence analysis that evaluate_option uses for the
\* option is the unknown value -1
UnknownEstimate(opt) ==
    \/ \E i \in 1..Len(func_dim_estimates(opt.cons_group)) :
          func_dim_estimates(opt.cons_group)[i] = -1
    \/ \E fn \in prod_funcs(opt) : func_op(fn) = -1

UnknownRegion(opt, l) ==
    LET m == Estimate(opt, l)
    IN m.inter_s = -1 \/ m.red_work_tile = -1

C15_EstimatesRejected ==
    (ppc = "chosen" /\ best.benefit # -1) => ~UnknownEstimate(best)

\* ceil(a / b) for positive b
CeilDiv(a, b) == (a + b - 1) \div b

\* the number of tiles of the consumer under the tile sizes: the product of
\* ceil(dim / tile) over the axes that are tiled
TilesOf(cons, tile_sizes) ==
    LET est == func_dim_estimates(cons)
    IN ProductOver([i \in 1..Len(tile_sizes) |->
                       IF tile_sizes[i] # -1 THEN CeilDiv(est[i], tile_sizes[i])
                       ELSE 1], 1)

\* the option has a benefit: it passed the parallelism floor with a tiled axis
PassedFloor(opt) ==
    opt.benefit # -1 =>
        /\ Len(opt.tile_sizes) = Len(args(opt.cons_group))
        /\ \E i \in 1..Len(opt.tile_sizes) : opt.tile_sizes[i] # -1
        /\ TilesOf(opt.cons_group, opt.tile_sizes) >= arch_params.parallelism

\* C18: an option whose estimated number of tiles is below the parallelism
\* parameter has benefit -1, be it the option a round returns or one kept in
\* the cache; so the option of every merge that is applied, and the tile
\* sizes it leaves in group_sched, have at least `parallelism` tiles and at
\* least one tiled axis.
C18_ParallelismFloor ==
    ppc \in {"loop", "chosen", "done", "abort"} =>
        /\ PassedFloor(best)
        /\ \A p \in DOMAIN option_cache : PassedFloor(option_cache[p])
        /\ \A g \in DOMAIN group_sched :
             PassedFloor([cons_group |-> g, tile_sizes |-> group_sched[g].tile_sizes,
                          benefit |-> group_sched[g].benefit])

\* f has been merged into g with the tile size 8: g, of extent 64, has
\* exactly `parallelism` tiles; every larger size variant gave fewer tiles
C18_Witness ==
    /\ ppc = "loop" /\ level = "FAST_MEM"
    /\ inlines = EmptyMap
    /\ "f" \notin DOMAIN groups /\ groups["g"] = <<"g", "f">>
    /\ func_dim_estimates("g") = <<64>>
    /\ group_sched["g"].tile_sizes = <<8>>
    /\ TilesOf("g", <<8>>) = arch_params.parallelism
    /\ TilesOf("g", <<16>>) < arch_params.parallelism

\* the size and the balance of the level the grouping is run for
Cap(l) == IF l = "INLINE" THEN arch_params.inline_size ELSE arch_params.fast_mem_size
Balance(l) == IF l = "INLINE" THEN arch_params.balance_inline
              ELSE arch_params.balance_fast_mem

\* the options a round of the level evaluates for its candidate pairs
PairOptions(p) ==
    IF level = "INLINE" THEN { NewOption(p, AllOnes(p[2])) }
    ELSE { NewOption(p, TileOptions(Len(args(p[2])))[k]) :
             k \in 1..(Len(args(p[2])) * Len(size_variants)) }

RoundOptions == UNION { PairOptions(cand_pairs[i]) : i \in 1..Len(cand_pairs) }

\* every metric evaluate_option uses for the option has a value
KnownMetrics(opt, l) == ~UnknownEstimate(opt) /\ ~UnknownRegion(opt, l)

\* the first tier as the cost model computes it
FitsBenefit(opt, l) ==
    LET m == Estimate(opt, l)
    IN m.total_mem * Balance(l) - m.redundant_work

Fits(opt, l) == Estimate(opt, l).inter_s <= Cap(l)
Infeasible(opt, l) == Estimate(opt, l).inter_s > 2 * Cap(l)

\* C20 as stated: an evaluated option with known metrics whose footprint is
\* at most the size of the level has the benefit total_mem * balance -
\* redundant_work, whatever its number of tiles; one whose footprint exceeds
\* twice the size has benefit -1 and is not the option of a merge.
C20_AsStated ==
    /\ ppc = "loop" =>
          \A opt \in RoundOptions :
              KnownMetrics(opt, level) =>
                  /\ Fits(opt, level) =>
                        evaluate_option(opt, level).benefit = FitsBenefit(opt, level)
                  /\ Infeasible(opt, level) =>
                        evaluate_option(opt, level).benefit = -1
    /\ (ppc = "chosen" /\ best.benefit # -1 /\ KnownMetrics(best, level)) =>
          ~Infeasible(best, level)

\* C20: an evaluated option with known metrics and at least `parallelism`
\* tiles whose footprint is at most the size of the level has the benefit
\* total_mem * balance - redundant_work (with fewer tiles its benefit is -1);
\* one whose footprint exceeds twice the size has benefit -1 and is not the
\* option of a merge.
C20_FootprintTiers ==
    /\ ppc = "loop" =>
          \A opt \in RoundOptions :
              KnownMetrics(opt, level) =>
                  /\ Fits(opt, level) =>
                        evaluate_option(opt, level).benefit =
                            IF TooFewTiles(Estimate(opt, level)) THEN -1
                            ELSE FitsBenefit(opt, level)
                  /\ Infeasible(opt, level) =>
                        evaluate_option(opt, level).benefit = -1
    /\ (ppc = "chosen" /\ best.benefit # -1 /\ KnownMetrics(best, level)) =>
          ~Infeasible(best, level)

\* a round of the INLINE level has evaluated the pair (g, h): the footprint
\* of the option exceeds twice inline_size, its benefit in the cache is -1
\* although it has tiles enough, and no merge follows
C20_Witness ==
    /\ ppc = "chosen" /\ level = "INLINE" /\ best.benefit = -1
    /\ <<"g", "h">> \in DOMAIN option_cache
    /\ LET opt == option_cache[<<"g", "h">>]
       IN /\ opt.benefit = -1
          /\ KnownMetrics(opt, level)
          /\ Infeasible(opt, level)
          /\ ~TooFewTiles(Estimate(opt, level))


(***************************************************************************)
(* The expressions build_provide_loop_nest emits and simple_vectorize       *)
(* inspects.  An expression is a tree of Expr nodes; a boolean constant is  *)
(* held as 0 or 1 of type bool.                                             *)
(***************************************************************************)
Expr(k, name, ty, val, kids) ==
    [k |-> k, name |-> name, ty |-> ty, val |-> val, kids |-> kids]

Variable(ty, name) == Expr("Variable", name, ty, 0, <<>>)
IntImm(v) == Expr("IntImm", <<>>, "int", v, <<>>)
const_true == Expr("BoolImm", <<>>, "bool", 1, <<>>)
const_false == Expr("BoolImm", <<>>, "bool", 0, <<>>)
Add(a, b) == Expr("Add", <<>>, "int", 0, <<a, b>>)
Sub(a, b) == Expr("Sub", <<>>, "int", 0, <<a, b>>)
Mul(a, b) == Expr("Mul", <<>>, "int", 0, <<a, b>>)
Div(a, b) == Expr("Div", <<>>, "int", 0, <<a, b>>)
Mod(a, b) == Expr("Mod", <<>>, "int", 0, <<a, b>>)
Max(a, b) == Expr("Max", <<>>, "int", 0, <<a, b>>)
Min(a, b) == Expr("Min", <<>>, "int", 0, <<a, b>>)
likely(a) == Expr("likely", <<>>, "int", 0, <<a>>)
EQ(a, b) == Expr("EQ", <<>>, "bool", 0, <<a, b>>)
LT(a, b) == Expr("LT", <<>>, "bool", 0, <<a, b>>)
Not(a) == Expr("Not", <<>>, "bool", 0, <<a>>)

LetStmt(name, value) == [name |-> name, value |-> value]

\* the value of an integer expression under the loop values `at`; ok is
\* false when a division or a modulus by zero is met on the way.  The
\* division rounds down and the remainder of a positive divisor is not
\* negative.
RECURSIVE Eval(_, _)
Eval(e, at) ==
    IF e.k = "Variable" THEN [ok |-> TRUE, v |-> at[e.name]]
    ELSE IF e.k = "IntImm" THEN [ok |-> TRUE, v |-> e.val]
    ELSE IF e.k = "likely" THEN Eval(e.kids[1], at)
    ELSE LET a == Eval(e.kids[1], at)
             b == Eval(e.kids[2], at)
         IN IF ~a.ok \/ ~b.ok THEN [ok |-> FALSE, v |-> 0]
            ELSE IF e.k = "Add" THEN [ok |-> TRUE, v |-> a.v + b.v]
            ELSE IF e.k = "Sub" THEN [ok |-> TRUE, v |-> a.v - b.v]
            ELSE IF e.k = "Mul" THEN [ok |-> TRUE, v |-> a.v * b.v]
            ELSE IF e.k = "Max" THEN [ok |-> TRUE, v |-> Max2(a.v, b.v)]
            ELSE IF e.k = "Min" THEN [ok |-> TRUE, v |-> Min2(a.v, b.v)]
            ELSE IF b.v <= 0 THEN [ok |-> b.v # 0, v |-> 0]
            ELSE IF e.k = "Div" THEN [ok |-> TRUE, v |-> a.v \div b.v]
            ELSE [ok |-> TRUE, v |-> a.v % b.v]

\* a divisor taken as it comes
fuse_factor_Unguarded(inner_extent) == inner_extent

\* `Expr factor = max(inner_extent, 1);`
fuse_factor(inner_extent) == Max(inner_extent, IntImm(1))

\* the lets of a FuseVars split, the outer one first
fuse_lets(split) ==
    LET fused == Variable("int", split.old_var)
        inner_min == Variable("int", split.inner \o <<"loop_min">>)
        outer_min == Variable("int", split.outer \o <<"loop_min">>)
        inner_extent == Variable("int", split.inner \o <<"loop_extent">>)
        factor == fuse_factor(inner_extent)
        inner == Add(Mod(fused, factor), inner_min)
        outer == Add(Div(fused, factor), outer_min)
    IN <<LetStmt(split.outer, outer), LetStmt(split.inner, inner)>>

\* every divisor of a division or modulus inside e
RECURSIVE Divisors(_)
Divisors(e) ==
    (IF e.k \in {"Div", "Mod"} THEN {e.kids[2]} ELSE {})
        \cup UNION { Divisors(e.kids[i]) : i \in 1..Len(e.kids) }


\* substitute(name, value, expr)
RECURSIVE substitute(_, _, _)
substitute(name, value, e) ==
    IF e.k = "Variable" THEN (IF e.name = name THEN value ELSE e)
    ELSE [e EXCEPT !.kids = IF Len(e.kids) = 0 THEN <<>>
                            ELSE IF Len(e.kids) = 1
                            THEN <<substitute(name, value, e.kids[1])>>
                            ELSE <<substitute(name, value, e.kids[1]),
                                   substitute(name, value, e.kids[2])>>]

IsConst(e) == e.k \in {"IntImm", "BoolImm"}

IsImm(e, v) == e.k = "IntImm" /\ e.val = v

\* the simplifier, as far as the substituted constants and the finite
\* differences need it: a negation or an equality of constants folds, and so
\* do a sum and a product of constants, a sum with 0 and a product with 0
\* or 1
RECURSIVE simplify(_)
simplify(e) ==
    IF Len(e.kids) = 0 THEN e
    ELSE LET a == simplify(e.kids[1])
         IN IF Len(e.kids) = 1
            THEN (IF e.k = "Not" /\ a.k = "BoolImm"
                  THEN (IF a.val = 1 THEN const_false ELSE const_true)
                  ELSE [e EXCEPT !.kids = <<a>>])
            ELSE LET b == simplify(e.kids[2])
                 IN IF e.k = "EQ" /\ IsConst(a) /\ IsConst(b) /\ a.k = b.k
                    THEN (IF a.val = b.val THEN const_true ELSE const_false)
                    ELSE IF e.k = "Add" /\ a.k = "IntImm" /\ b.k = "IntImm"
                    THEN IntImm(a.val + b.val)
                    ELSE IF e.k = "Add" /\ IsImm(a, 0) THEN b
                    ELSE IF e.k = "Add" /\ IsImm(b, 0) THEN a
                    ELSE IF e.k = "Mul" /\ a.k = "IntImm" /\ b.k = "IntImm"
                    THEN IntImm(a.val * b.val)
                    ELSE IF e.k = "Mul" /\ (IsImm(a, 0) \/ IsImm(b, 0)) THEN IntImm(0)
                    ELSE IF e.k = "Mul" /\ IsImm(a, 1) THEN b
                    ELSE IF e.k = "Mul" /\ IsImm(b, 1) THEN a
                    ELSE [e EXCEPT !.kids = <<a, b>>]

\* finite_difference(expr, var): expr at var + 1 minus expr at var, for the
\* sums and products of variables and constants an index is made of
RECURSIVE finite_difference(_, _)
finite_difference(e, var) ==
    IF e.k = "Variable" THEN (IF e.name = var THEN IntImm(1) ELSE IntImm(0))
    ELSE IF e.k = "IntImm" THEN IntImm(0)
    ELSE LET a == e.kids[1]
             b == e.kids[2]
             da == finite_difference(a, var)
             db == finite_difference(b, var)
         IN IF e.k = "Add" THEN Add(da, db)
            ELSE Add(Add(Mul(a, db), Mul(da, b)), Mul(da, db))

\* an immediate of any type; the model has no Broadcast
is_simple_const(e) == e.k = "IntImm"

\* a statement is the list of the expressions it holds
substitute_stmt(name, value, stmt) ==
    [i \in 1..Len(stmt) |-> substitute(name, value, stmt[i])]

simplify_exprs(stmt) == [i \in 1..Len(stmt) |-> simplify(stmt[i])]


(***************************************************************************)
(* schedule_advisor: the schedule it writes from the grouping.  The        *)
(* pipeline is the one `analy` describes; every function is pure and       *)
(* starts from the default schedule (its args, then __outermost, no        *)
(* split).  A variable name is the tuple of its dot-separated parts.       *)
(* An operator below works on A = [env, est, oob]: the schedules, the      *)
(* dim_estimates map of the group being scheduled, and whether a vector    *)
(* has been read past its end.                                             *)
(***************************************************************************)
MaxCalls == 2

\* what a read past the end of sched.tile_sizes may return
Garbage == {-1, 0, 1, 16}

ScheduleDim(var, for_type, pure) == [var |-> var, for_type |-> for_type, pure |-> pure]

default_schedule(fn) ==
    [dims |-> IF Len(args(fn)) = 1
              THEN <<ScheduleDim(<<args(fn)[1]>>, "Serial", TRUE),
                     ScheduleDim(<<"__outermost">>, "Serial", TRUE)>>
              ELSE <<ScheduleDim(<<args(fn)[1]>>, "Serial", TRUE),
                     ScheduleDim(<<args(fn)[2]>>, "Serial", TRUE),
                     ScheduleDim(<<"__outermost">>, "Serial", TRUE)>>,
     splits |-> <<>>,
     store_level |-> LoopLevel("", <<"">>),
     compute_level |-> LoopLevel("", <<"">>)]

InsertAt(list, i, e) == SubSeq(list, 1, i - 1) \o <<e>> \o SubSeq(list, i, Len(list))

\* dims are indexed from 0, as in the source
parallelize_dim(ds, dim) == [ds EXCEPT ![dim + 1].for_type = "Parallel"]

move_dim_to_outermost(ds, dim) == RemoveAt(InsertAt(ds, Len(ds), ds[dim + 1]), dim + 1)

\* a split that changes the dims and the estimates but is not recorded
split_dim_Unrecorded(A, fn, dim, split_size, prefix, partial) ==
    LET ds == A.env[fn].dims
        old_name == ds[dim + 1].var
        inner_name == old_name \o <<prefix, "in">>
        outer_name == old_name \o <<prefix, "out">>
        copied == InsertAt(ds, dim + 1, ds[dim + 1])
    IN [A EXCEPT !.env[fn].dims = [copied EXCEPT ![dim + 1].var = inner_name,
                                                 ![dim + 2].var = outer_name]]

split_dim(A, fn, dim, split_size, prefix, partial) ==
    LET ds == A.env[fn].dims
        old_name == ds[dim + 1].var
        inner_name == old_name \o <<prefix, "in">>
        outer_name == old_name \o <<prefix, "out">>
        copied == InsertAt(ds, dim + 1, ds[dim + 1])
        e1 == Put(A.est, inner_name, split_size)
        old_est == Lookup(e1, old_name, 0)
        e2 == IF old_est # -1
              THEN Put(e1, outer_name, (old_est + split_size - 1) \div split_size)
              ELSE Put(e1, inner_name, -1)
    IN [A EXCEPT !.env[fn].dims = [copied EXCEPT ![dim + 1].var = inner_name,
                                                 ![dim + 2].var = outer_name],
                 !.env[fn].splits = Append(@, Split(old_name, outer_name, inner_name,
                                                    split_size, FALSE, partial,
                                                    "SplitVar")),
                 !.est = Remove(e2, old_name)]

\* the factor of a fuse is the undefined Expr(), held as 0
fuse_dim(A, fn, dim1, dim2) ==
    LET ds == A.env[fn].dims
        outer_name == ds[dim1 + 1].var
        outer_pure == ds[dim1 + 1].pure
        erased == RemoveAt(ds, dim1 + 1)
        inner_name == erased[dim2 + 1].var
        fused_name == inner_name \o outer_name
        out_estimate == Lookup(A.est, outer_name, 0)
        in_estimate == Lookup(A.est, inner_name, 0)
        e1 == Put(A.est, fused_name,
                  IF in_estimate > 0 /\ out_estimate > 0
                  THEN out_estimate * in_estimate ELSE -1)
    IN [A EXCEPT !.env[fn].dims = [erased EXCEPT ![dim2 + 1].var = fused_name,
                                                 ![dim2 + 1].pure = @ /\ outer_pure],
                 !.env[fn].splits = Append(@, Split(fused_name, outer_name, inner_name,
                                                    0, TRUE, FALSE, "FuseVars")),
                 !.est = Remove(Remove(e1, outer_name), inner_name)]

vectorize_dim(A, fn, dim, vec_width) ==
    IF vec_width # -1
    THEN [split_dim(A, fn, dim, vec_width, "vec", FALSE)
             EXCEPT !.env[fn].dims[dim + 1].for_type = "Vectorized"]
    ELSE [A EXCEPT !.env[fn].dims[dim + 1].for_type = "Vectorized"]

\* the extent of the arg that dims[dim] still names, when the bounds have it
check_dim_size(A, fn, dim, min_size) ==
    LET v == A.env[fn].dims[dim + 1].var
        hits == { i \in 1..Len(args(fn)) : v = <<args(fn)[i]>> }
    IN IF hits = {} THEN TRUE
       ELSE LET ext == analy.est[fn][CHOOSE i \in hits : TRUE]
            IN IF ext >= 0 THEN ext >= min_size ELSE TRUE

\* FindCallArgs::load_args of fn: the index tuple of every call to a Halide
\* function in its definition, without the name of the function called
load_args(fn) == adv.loads[fn]

\* the conjunction the loop over find.load_args accumulates
RECURSIVE constant_stride(_, _, _)
constant_stride(loads, inner_dim, var) ==
    IF loads = <<>> THEN TRUE
    ELSE /\ is_simple_const(simplify(finite_difference(Head(loads)[inner_dim + 1], var)))
         /\ constant_stride(Tail(loads), inner_dim, var)

\* a vectorizer that asks nothing about the loads
simple_vectorize_Always(A, fn, inner_dim, vec_width) ==
    vectorize_dim(A, fn, inner_dim, vec_width)

simple_vectorize(A, fn, inner_dim, vec_width) ==
    IF constant_stride(load_args(fn), inner_dim, <<args(fn)[inner_dim + 1]>>)
    THEN vectorize_dim(A, fn, inner_dim, vec_width)
    ELSE A

\* the loop of pick_dim_to_parallelize that fuses the outer dims
RECURSIVE FuseOuter(_, _, _, _, _)
FuseOuter(A, fn, i, num_tile_dims, num_fused_dims) ==
    LET ds == A.env[fn].dims
        outer_dim == Len(ds) - 2
    IN IF i >= num_tile_dims
          \/ Lookup(A.est, ds[outer_dim + 1].var, 0) > arch_params.parallelism
       THEN [a |-> A, outer_dim |-> outer_dim, num_fused_dims |-> num_fused_dims]
       ELSE FuseOuter(fuse_dim(A, fn, outer_dim, outer_dim - 1), fn, i + 1,
                      num_tile_dims, num_fused_dims + 1)

pick_dim_to_parallelize(A, fn, g_sched) ==
    LET ds == A.env[fn].dims
        outer_dim == Len(ds) - 2
        num_tile_dims == Cardinality({ i \in 1..Len(g_sched.tile_sizes) :
                                         g_sched.tile_sizes[i] > 1 })
        big == { i \in 1..outer_dim :
                   Lookup(A.est, ds[i + 1].var, 0) > arch_params.parallelism }
    IN IF num_tile_dims > 0 THEN FuseOuter(A, fn, 0, num_tile_dims, 0)
       ELSE [a |-> IF big = {} THEN A
                   ELSE [A EXCEPT !.env[fn].dims = move_dim_to_outermost(@, SetMax(big))],
             outer_dim |-> outer_dim, num_fused_dims |-> 0]

get_dim_estimates(fn) ==
    [v \in { <<args(fn)[i]>> : i \in 1..Len(args(fn)) } |->
        analy.est[fn][CHOOSE i \in 1..Len(args(fn)) : v = <<args(fn)[i]>>]]

\* the loop that realizes the tiling of the vars chosen for it
RECURSIVE TileVars(_, _, _, _, _)
TileVars(A, g_out, vs, tile_sizes, k) ==
    IF k > Len(vs) THEN A
    ELSE LET ds == A.env[g_out].dims
             index == (CHOOSE i \in 1..(Len(ds) - 1) :
                          /\ ds[i].var = vs[k]
                          /\ \A j \in 1..(i - 1) : ds[j].var # vs[k]) - 1
             size == tile_sizes[vs[k]]
         IN IF size > 1
            THEN TileVars([split_dim(A, g_out, index, size, "tile", FALSE)
                              EXCEPT !.env[g_out].dims = move_dim_to_outermost(@, index + 1)],
                          g_out, vs, tile_sizes, k + 1)
            ELSE IF size = 1
            THEN TileVars([A EXCEPT !.env[g_out].dims = move_dim_to_outermost(@, index)],
                          g_out, vs, tile_sizes, k + 1)
            ELSE TileVars(A, g_out, vs, tile_sizes, k + 1)

\* the loop over the members of the group: where they are stored and computed
RECURSIVE ScheduleMembers(_, _, _, _, _)
ScheduleMembers(A, g_out, k, num_tile_dims, num_fused_dims) ==
    IF k > Len(groups[g_out]) THEN A
    ELSE LET m == groups[g_out][k]
             ds == A.env[g_out].dims
             outer_dim == Len(ds) - 2
             compute_level == outer_dim - num_tile_dims + num_fused_dims + 1
             inside == compute_level \in 0..(Len(ds) - 1)
             at == LoopLevel(g_out, IF inside THEN ds[compute_level + 1].var ELSE <<"?">>)
             B == [A EXCEPT !.env[m].store_level = at,
                            !.env[m].compute_level = at,
                            !.oob = @ \/ ~inside]
         IN IF m # g_out /\ m \notin DOMAIN inlines /\ num_tile_dims > 0
            THEN ScheduleMembers(IF check_dim_size(B, m, 0, arch_params.vec_len)
                                 THEN simple_vectorize(B, m, 0, arch_params.vec_len)
                                 ELSE B,
                                 g_out, k + 1, num_tile_dims, num_fused_dims)
            ELSE ScheduleMembers(A, g_out, k + 1, num_tile_dims, num_fused_dims)

\* the body of the loop over part.groups, for the group of output g_out; junk
\* is what sched.tile_sizes[i] yields for an i past its end
ScheduleGroup(A0, g_out, junk) ==
    LET ds == A0.env[g_out].dims
        g_sched == group_sched[g_out]
        TileAt(i) == IF i <= Len(g_sched.tile_sizes) THEN g_sched.tile_sizes[i] ELSE junk
        tiled == SelectSeq([i \in 1..(Len(ds) - 1) |-> i], LAMBDA i : TileAt(i) # -1)
        vs == [k \in 1..Len(tiled) |-> ds[tiled[k]].var]
        tile_sizes == [v \in { vs[k] : k \in 1..Len(vs) } |->
                          TileAt(CHOOSE i \in 1..(Len(ds) - 1) : ds[i].var = v)]
        A1 == [A0 EXCEPT !.est = get_dim_estimates(g_out),
                         !.oob = @ \/ (Len(ds) - 1 > Len(g_sched.tile_sizes))]
        A2 == TileVars(A1, g_out, vs, tile_sizes, 1)
        A3 == IF check_dim_size(A2, g_out, 0, arch_params.vec_len)
              THEN simple_vectorize(A2, g_out, 0, arch_params.vec_len)
              ELSE A2
        pk == pick_dim_to_parallelize(A3, g_out, g_sched)
        A4 == IF pk.outer_dim # -1
              THEN [pk.a EXCEPT !.env[g_out].dims = parallelize_dim(@, pk.outer_dim)]
              ELSE pk.a
    IN ScheduleMembers(A4, g_out, 1, Len(vs), pk.num_fused_dims)

\* `for (auto& g: part.groups)`, in the order of the map
RECURSIVE ScheduleGroups(_, _, _)
ScheduleGroups(A, i, junk) ==
    IF i > Len(analy.keys) THEN A
    ELSE IF analy.keys[i] \in DOMAIN groups
    THEN ScheduleGroups(ScheduleGroup(A, analy.keys[i], junk), i + 1, junk)
    ELSE ScheduleGroups(A, i + 1, junk)

\* the pipelines schedule_advisor is called on
AdvisorEstimates ==
    [f : {<<4>>, <<64>>, <<65536>>}, g : {<<-1>>, <<64>>}, h : {<<64, 64>>}]

\* the index a function passes to the one-dimensional functions it calls: its
\* innermost variable, or a product with it
x_index == Variable("int", <<"x">>)
IndexChoices ==
    { [f |-> x_index, g |-> x_index, h |-> x_index],
      [f |-> x_index, g |-> Mul(x_index, x_index), h |-> x_index],
      [f |-> x_index, g |-> Mul(x_index, x_index), h |-> Mul(x_index, x_index)] }

\* one load per function called
Loads(cg, index) ==
    [fn \in Funcs |-> IF cg[fn] = {} THEN <<>>
                      ELSE IF Cardinality(cg[fn]) = 1 THEN << <<index[fn]>> >>
                      ELSE << <<index[fn]>>, <<index[fn]>> >>]

InitAdvisor ==
    /\ \E cg \in CallGraphs : \E w \in Widths :
         /\ \E est \in AdvisorEstimates : \E mc \in MemChoices(cg) :
              \E keys \in KeyOrders :
                analy = [calls |-> cg, est |-> est, mem |-> mc, w |-> w,
                         keys |-> keys]
         /\ \E inl \in InlineChoices(cg, w) : \E index \in IndexChoices :
              adv \in [root_default : BOOLEAN, auto_inline : BOOLEAN,
                       inlinable : {inl}, loads : {Loads(cg, index)}]
    /\ env = [fn \in Funcs |-> default_schedule(fn)]
    /\ after_call = <<>>
    /\ apc = "entry"
    /\ inlines = <<>> /\ level = "" /\ groups = <<>> /\ children = <<>>
    /\ group_sched = <<>> /\ option_cache = <<>> /\ best = <<>> /\ ppc = "idle"
    /\ LoweringIdle
    /\ SplitsIdle
    /\ EmitIdle

\* schedule_advisor up to the call of part.group: the default levels, the
\* early inlining and the Partitioner
AdvisorEntry ==
    /\ apc = "entry" /\ Len(after_call) < MaxCalls
    /\ LET rooted == [fn \in Funcs |->
                         IF adv.root_default
                         THEN [env[fn] EXCEPT !.store_level = LoopLevel("", <<"__root">>),
                                              !.compute_level = LoopLevel("", <<"__root">>)]
                         ELSE env[fn]]
           inl == IF adv.auto_inline THEN adv.inlinable ELSE EmptyMap
           P == Partitioner(analy.calls, inl, analy.keys)
       IN /\ env' = [fn \in Funcs |->
                        IF fn \in DOMAIN inl
                        THEN [rooted[fn] EXCEPT !.store_level.var = <<"">>,
                                                !.compute_level.var = <<"">>]
                        ELSE rooted[fn]]
          /\ inlines' = inl
          /\ groups' = P.groups
          /\ children' = P.children
          /\ option_cache' = EmptyMap
          /\ group_sched' = [g \in DOMAIN P.groups |->
                                GroupSched([i \in 1..Len(args(g)) |-> -1], -1)]
    /\ level' = "FAST_MEM"
    /\ best' = NoOption
    /\ ppc' = "loop"
    /\ apc' = "group"
    /\ UNCHANGED <<analy, adv, after_call, xad>>

\* the Partitioner goes away when schedule_advisor returns
PartitionerGone ==
    /\ inlines' = <<>> /\ level' = "" /\ groups' = <<>> /\ children' = <<>>
    /\ group_sched' = <<>> /\ option_cache' = <<>> /\ best' = <<>> /\ ppc' = "idle"

\* schedule_advisor after part.group has returned: the schedules of the
\* groups; a read past the end of a vector may also end the process
AdvisorSchedules ==
    /\ apc = "group" /\ ppc = "done"
    /\ \E junk \in Garbage :
         LET A == ScheduleGroups([env |-> env, est |-> EmptyMap, oob |-> FALSE], 1, junk)
         IN \/ /\ env' = A.env
               /\ after_call' = Append(after_call, A.env)
               /\ apc' = "entry"
            \/ /\ A.oob
               /\ apc' = "crash"
               /\ UNCHANGED <<env, after_call>>
    /\ PartitionerGone
    /\ UNCHANGED <<analy, adv, xad>>

NextAdvisor ==
    \/ AdvisorEntry
    \/ NextPartitioner
    \/ AdvisorSchedules

SpecAdvisor == InitAdvisor /\ [][NextAdvisor]_vars


(***************************************************************************)
(* Properties of schedule_advisor                                          *)
(***************************************************************************)
\* C10 as stated: the second call of schedule_advisor leaves every function's
\* dims, splits, loop types, store_at and compute_at as the first call left
\* them.
C10_Idempotent == Len(after_call) >= 2 => after_call[2] = after_call[1]

NoSplitAdded(E) == \A fn \in Funcs : E[fn].splits = <<>>

IsPrefix(a, b) == Len(a) <= Len(b) /\ SubSeq(b, 1, Len(a)) = a

\* C10, amended: a second call that returns leaves the schedules as the first
\* call left them when the first call split no dimension of any function
\* (nothing tiled, nothing vectorized); a function the first call did split
\* keeps those splits and gets at least one more split from the second call,
\* and with it other dims.
C10_SecondCall ==
    Len(after_call) >= 2 =>
        /\ NoSplitAdded(after_call[1]) => after_call[2] = after_call[1]
        /\ \A fn \in Funcs :
             after_call[1][fn].splits # <<>> =>
                 /\ IsPrefix(after_call[1][fn].splits, after_call[2][fn].splits)
                 /\ Len(after_call[2][fn].splits) > Len(after_call[1][fn].splits)
                 /\ after_call[2][fn].dims # after_call[1][fn].dims

\* f was vectorized by the first call and once more by the second, whose read
\* of tile_sizes past its end yielded -1: x.vec.in is split into
\* x.vec.in.vec.in and x.vec.in.vec.out
C10_Witness ==
    /\ Len(after_call) = 2
    /\ Len(after_call[1]["f"].splits) = 1
    /\ Len(after_call[2]["f"].splits) = 2
    /\ after_call[2]["f"].splits[2].old_var = <<"x", "vec", "in">>
    /\ after_call[2]["f"].dims[1].var = <<"x", "vec", "in", "vec", "in">>


(***************************************************************************)
(* simple_vectorize on its own: the output h(x, y) of a group reads a      *)
(* two-dimensional function; adv.loads["h"] holds the index pairs of its   *)
(* calls and analy.est["h"] the extents of x and y.                        *)
(***************************************************************************)
MaxLoads == 2

y_index == Variable("int", <<"y">>)

\* what a call may have at one position of its index
VecIndices ==
    { x_index, y_index, Add(x_index, IntImm(1)), Add(y_index, IntImm(1)),
      Mul(IntImm(2), x_index), Mul(x_index, y_index) }

RECURSIVE LoadLists(_)
LoadLists(n) ==
    IF n = 0 THEN {<<>>}
    ELSE { Append(ls, l) : ls \in LoadLists(n - 1), l \in VecIndices \X VecIndices }

\* the extent of x is at least vec_len, or smaller, or unknown
VecEstimates == {<<64, 64>>, <<4, 64>>, <<-1, 64>>}

InitVectorize ==
    /\ \E e \in VecEstimates : \E n \in 0..MaxLoads : \E ls \in LoadLists(n) :
         /\ analy = [calls |-> [fn \in Funcs |-> {}],
                     est |-> [f |-> <<64>>, g |-> <<64>>, h |-> e],
                     mem |-> [fn \in Funcs |-> 1], w |-> 0, keys |-> order]
         /\ adv = [root_default |-> FALSE, auto_inline |-> FALSE,
                   inlinable |-> EmptyMap,
                   loads |-> [f |-> <<>>, g |-> <<>>, h |-> ls]]
    /\ env = [fn \in Funcs |-> default_schedule(fn)]
    /\ after_call = <<>>
    /\ apc = "vectorize"
    /\ inlines = <<>> /\ level = "" /\ groups = <<>> /\ children = <<>>
    /\ group_sched = <<>> /\ option_cache = <<>> /\ best = <<>> /\ ppc = "idle"
    /\ LoweringIdle
    /\ SplitsIdle
    /\ EmitIdle

\* `if (check_dim_size(g_out, 0, vec_len, pipeline_bounds))
\*      simple_vectorize(g_out, dim_estimates, 0, vec_len);`
VectorizeOutput ==
    /\ apc = "vectorize"
    /\ LET e == analy.est["h"]
           A == [env |-> env,
                 est |-> Put(Put(EmptyMap, <<"x">>, e[1]), <<"y">>, e[2]),
                 oob |-> FALSE]
           B == IF check_dim_size(A, "h", 0, arch_params.vec_len)
                THEN simple_vectorize(A, "h", 0, arch_params.vec_len)
                ELSE A
       IN env' = B.env
    /\ apc' = "vectorized"
    /\ UNCHANGED <<ptvars, adv, after_call, xad>>

NextVectorize == VectorizeOutput

SpecVectorize == InitVectorize /\ [][NextVectorize]_vars

\* dims[0] of fn is the inner half of a split of x by vec_len, and vectorized
SplitAndVectorized(fn) ==
    /\ Len(env[fn].splits) = 1
    /\ env[fn].splits[1].old_var = <<"x">>
    /\ env[fn].splits[1].inner = <<"x", "vec", "in">>
    /\ env[fn].splits[1].factor = arch_params.vec_len
    /\ env[fn].dims[1].var = <<"x", "vec", "in">>
    /\ env[fn].dims[1].for_type = "Vectorized"
    /\ env[fn].dims[2].var = <<"x", "vec", "out">>

Untouched(fn) == env[fn] = default_schedule(fn)

\* the finite difference over x of the first index of every load of fn folds
\* to an immediate
FirstIndexConstant(fn) ==
    \A k \in 1..Len(adv.loads[fn]) :
        is_simple_const(simplify(finite_difference(adv.loads[fn][k][1], <<"x">>)))

\* the load reads its function at (y, x)
Transposed(larg) == larg = <<y_index, x_index>>

LargeEnough(fn) == analy.est[fn][1] = -1 \/ analy.est[fn][1] >= arch_params.vec_len

\* C19: once the vectorisation step has run, a function whose dim is not too
\* small and whose loads all have a constant finite difference over x is
\* split by vec_len with the inner part Vectorized, and a function with a
\* transposed load f(y, x) is not vectorised.
C19_VectorizeDecision ==
    apc = "vectorized" =>
        /\ (LargeEnough("h") /\ FirstIndexConstant("h")) => SplitAndVectorized("h")
        /\ (\E k \in 1..Len(adv.loads["h"]) : Transposed(adv.loads["h"][k]))
               => Untouched("h")

\* what simple_vectorize looks at is the first index of each load and
\* nothing else
VectorizeFirstIndexOnly ==
    apc = "vectorized" =>
        /\ (LargeEnough("h") /\ FirstIndexConstant("h")) => SplitAndVectorized("h")
        /\ ~(LargeEnough("h") /\ FirstIndexConstant("h")) => Untouched("h")

\* scenario S6, first half: h reads f(x, y) and f(x, y + 1) and is vectorised
S6_Stencil ==
    /\ apc = "vectorized"
    /\ adv.loads["h"] = << <<x_index, y_index>>, <<x_index, Add(y_index, IntImm(1))>> >>
    /\ SplitAndVectorized("h")

\* scenario S6, second half: h reads f(y, x) and is vectorised all the same
S6_TransposedVectorized ==
    /\ apc = "vectorized"
    /\ adv.loads["h"] = << <<y_index, x_index>> >>
    /\ analy.est["h"] = <<64, 64>>
    /\ SplitAndVectorized("h")


(***************************************************************************)
(* build_provide_loop_nest: the specialisations of a stage.                *)
(***************************************************************************)

IfThenElse(c, then_case, else_case) ==
    [condition |-> c, then_case |-> then_case, else_case |-> else_case]

\* a specialisation that never touches the else-branch
specialize_ThenOnly(c, then_body, stmt) ==
    LET eq == c.k = "EQ"
        scrutinee == IF eq THEN c.kids[1] ELSE c
        var == scrutinee.k = "Variable"
    IN IF var
       THEN IfThenElse(c,
                simplify_exprs(substitute_stmt(scrutinee.name,
                                               IF eq THEN c.kids[2] ELSE const_true,
                                               then_body)),
                stmt)
       ELSE IfThenElse(c, then_body, stmt)

\* one round of the loop over s.specializations(): c is the condition,
\* then_body the nest built for the specialised schedule, stmt the nest so far
specialize(c, then_body, stmt) ==
    LET eq == c.k = "EQ"
        scrutinee == IF eq THEN c.kids[1] ELSE c
        var == scrutinee.k = "Variable"
    IN IF var /\ eq
       THEN IfThenElse(c,
                simplify_exprs(substitute_stmt(scrutinee.name, c.kids[2], then_body)),
                IF c.kids[2].ty = "bool"
                THEN simplify_exprs(substitute_stmt(scrutinee.name, Not(c.kids[2]), stmt))
                ELSE stmt)
       ELSE IF var
       THEN IfThenElse(c,
                simplify_exprs(substitute_stmt(scrutinee.name, const_true, then_body)),
                simplify_exprs(substitute_stmt(scrutinee.name, const_false, stmt)))
       ELSE IfThenElse(c, then_body, stmt)


(***************************************************************************)
(* The emitter run on a fuse, whose lets are then evaluated at the loop    *)
(* values `at`, or on one specialisation.                                  *)
(***************************************************************************)
MaxFused == 11
MaxInnerExtent == 3
LoopMins == {0, 2}

the_fuse == Split(<<"u">>, <<"o">>, <<"i">>, 0, TRUE, FALSE, "FuseVars")

LoopValues ==
    { [n \in {<<"u">>, <<"i", "loop_extent">>, <<"i", "loop_min">>, <<"o", "loop_min">>} |->
          IF n = <<"u">> THEN fused
          ELSE IF n = <<"i", "loop_extent">> THEN inner_extent
          ELSE IF n = <<"i", "loop_min">> THEN inner_min ELSE outer_min] :
        fused \in 0..MaxFused, inner_extent \in 0..MaxInnerExtent,
        inner_min \in LoopMins, outer_min \in LoopMins }

\* the conditions of the specialisations: v and w are params of type ty
Conditions ==
    { EQ(Variable("bool", <<"v">>), const_true),
      EQ(Variable("bool", <<"v">>), const_false),
      Variable("bool", <<"v">>),
      EQ(Variable("int", <<"v">>), IntImm(3)),
      EQ(Variable("int", <<"v">>), Variable("int", <<"w">>)),
      EQ(Variable("bool", <<"v">>), Variable("bool", <<"w">>)),
      EQ(Variable("bool", <<"v">>), Not(Variable("bool", <<"w">>))),
      EQ(IntImm(3), Variable("int", <<"v">>)),
      LT(Variable("int", <<"v">>), IntImm(3)),
      Not(Variable("bool", <<"v">>)) }

\* the statements the two schedules give: they mention v, w and a loop variable
Bodies(ty) ==
    { <<Variable(ty, <<"v">>), EQ(Variable(ty, <<"v">>), Variable(ty, <<"w">>)), tail>> :
        tail \in { Variable("int", <<"x">>), Not(EQ(Variable(ty, <<"v">>), Variable(ty, <<"v">>))) } }

\* the type of the param v in a condition
ParamType(c) ==
    IF c.k = "Variable" THEN c.ty
    ELSE IF c.kids[1].k = "Variable" THEN c.kids[1].ty
    ELSE IF Len(c.kids) = 2 THEN c.kids[2].ty ELSE c.kids[1].ty

InitEmit ==
    /\ \/ \E at \in LoopValues : emit_in = [task |-> "fuse", split |-> the_fuse, at |-> at]
       \/ \E c \in Conditions : \E b1 \in Bodies(ParamType(c)) : \E b2 \in Bodies(ParamType(c)) :
            emit_in = [task |-> "specialize", condition |-> c,
                       then_body |-> b1, stmt |-> b2]
    /\ emitted = <<>>
    /\ evaluated = <<>>
    /\ epc = "start"
    /\ LoweringIdle
    /\ SplitsIdle
    /\ PartitionerIdle
    /\ AdvisorIdle

\* the FuseVars branch of the loop over the splits
EmitFuse ==
    /\ epc = "start" /\ emit_in.task = "fuse"
    /\ emitted' = fuse_lets(emit_in.split)
    /\ epc' = "lets"
    /\ UNCHANGED <<emit_in, evaluated, xem>>

\* the lets take their values when the loop nest is entered
EvalLets ==
    /\ epc = "lets"
    /\ evaluated' = [i \in 1..Len(emitted) |-> Eval(emitted[i].value, emit_in.at)]
    /\ epc' = "evaluated"
    /\ UNCHANGED <<emit_in, emitted, xem>>

\* one round of the loop over the specialisations
EmitSpecialization ==
    /\ epc = "start" /\ emit_in.task = "specialize"
    /\ emitted' = specialize(emit_in.condition, emit_in.then_body, emit_in.stmt)
    /\ epc' = "specialized"
    /\ UNCHANGED <<emit_in, evaluated, xem>>

NextEmit ==
    \/ EmitFuse
    \/ EvalLets
    \/ EmitSpecialization

SpecEmit == InitEmit /\ [][NextEmit]_vars

\* C11: the lets of a FuseVars split divide and take the remainder by
\* max(inner_extent, 1): for every inner_extent >= 0 each divisor is at least
\* 1 and no let divides or takes a modulus by zero; for inner_extent >= 1 the
\* divisor is inner_extent and remainder + quotient * inner_extent is fused.
C11_FuseLets ==
    epc = "evaluated" =>
        LET at == emit_in.at
            inner_extent == at[<<"i", "loop_extent">>]
            outer == evaluated[1].v - at[<<"o", "loop_min">>]
            inner == evaluated[2].v - at[<<"i", "loop_min">>]
        IN /\ \A i \in 1..Len(evaluated) : evaluated[i].ok
           /\ \A i \in 1..Len(emitted) : \A d \in Divisors(emitted[i].value) :
                /\ d = Max(Variable("int", <<"i", "loop_extent">>), IntImm(1))
                /\ Eval(d, at).v >= 1
                /\ inner_extent >= 1 => Eval(d, at).v = inner_extent
           /\ inner_extent >= 1 => inner + outer * inner_extent = at[<<"u">>]

\* the lets of a fuse whose inner extent is zero have been evaluated
C11_Witness ==
    /\ epc = "evaluated"
    /\ emit_in.at[<<"i", "loop_extent">>] = 0
    /\ Len(emitted) = 2 /\ Divisors(emitted[1].value) # {}
    /\ evaluated[1].ok /\ evaluated[2].ok


\* does the expression / the statement mention the variable
RECURSIVE Mentions(_, _)
Mentions(e, name) ==
    \/ e.k = "Variable" /\ e.name = name
    \/ \E i \in 1..Len(e.kids) : Mentions(e.kids[i], name)

StmtMentions(stmt, name) == \E i \in 1..Len(stmt) : Mentions(stmt[i], name)

\* the statement with the variable replaced by the value and simplified
Known(stmt, name, value) == simplify_exprs(substitute_stmt(name, value, stmt))

Negated(b) == IF b = const_true THEN const_false ELSE const_true

\* the scrutinee of a condition `v == e` or `v`
IsVarEq(c) == c.k = "EQ" /\ c.kids[1].k = "Variable"
IsBareVar(c) == c.k = "Variable"

\* C12 as stated: `v == b` with a boolean literal and a bare `v` substitute
\* both branches, `v == literal` with another literal the then-branch only,
\* and every other condition leaves both branches as they were built.
C12_AsStated ==
    epc = "specialized" =>
        LET c == emit_in.condition
            v == <<"v">>
        IN IF IsVarEq(c) /\ c.kids[2].k = "BoolImm"
           THEN /\ emitted.then_case = Known(emit_in.then_body, v, c.kids[2])
                /\ emitted.else_case = Known(emit_in.stmt, v, Negated(c.kids[2]))
           ELSE IF IsBareVar(c)
           THEN /\ emitted.then_case = Known(emit_in.then_body, v, const_true)
                /\ emitted.else_case = Known(emit_in.stmt, v, const_false)
           ELSE IF IsVarEq(c) /\ c.kids[2].k = "IntImm"
           THEN /\ emitted.then_case = Known(emit_in.then_body, v, c.kids[2])
                /\ emitted.else_case = emit_in.stmt
           ELSE /\ emitted.then_case = emit_in.then_body
                /\ emitted.else_case = emit_in.stmt

\* C12, amended: the then-branch is substituted for every condition `v == e`
\* with a variable on the left, whatever e is, and the else-branch gets the
\* simplified !e whenever e is of boolean type, literal or not; a bare
\* variable is true in the then-branch and false in the else-branch; only a
\* condition with no variable scrutinee leaves both branches as built.  With
\* a boolean literal b no v is left in either branch.
C12_Specialization ==
    epc = "specialized" =>
        LET c == emit_in.condition
            v == <<"v">>
        IN /\ emitted.condition = c
           /\ IF IsVarEq(c)
              THEN /\ emitted.then_case = Known(emit_in.then_body, v, c.kids[2])
                   /\ ~StmtMentions(emitted.then_case, v)
                   /\ IF c.kids[2].k = "BoolImm"
                      THEN /\ emitted.else_case = Known(emit_in.stmt, v, Negated(c.kids[2]))
                           /\ ~StmtMentions(emitted.else_case, v)
                      ELSE IF c.kids[2].ty = "bool"
                      THEN emitted.else_case = Known(emit_in.stmt, v, Not(c.kids[2]))
                      ELSE emitted.else_case = emit_in.stmt
              ELSE IF IsBareVar(c)
              THEN /\ emitted.then_case = Known(emit_in.then_body, v, const_true)
                   /\ emitted.else_case = Known(emit_in.stmt, v, const_false)
                   /\ ~StmtMentions(emitted.then_case, v)
                   /\ ~StmtMentions(emitted.else_case, v)
              ELSE /\ emitted.then_case = emit_in.then_body
                   /\ emitted.else_case = emit_in.stmt

\* specialize(v == w) on integers: w stands for v in the then-branch only
C12_Witness ==
    /\ epc = "specialized"
    /\ emit_in.condition = EQ(Variable("int", <<"v">>), Variable("int", <<"w">>))
    /\ emitted.then_case # emit_in.then_body
    /\ ~StmtMentions(emitted.then_case, <<"v">>)
    /\ emitted.else_case = emit_in.stmt


(***************************************************************************)
(* build_provide_loop_nest: the lets of one SplitVar and the loops they    *)
(* bound.  The old variable x is split into the outer loop xo and the      *)
(* inner loop xi; the loop nest is run over the bounds the lets give and   *)
(* the values the old variable takes are collected.                        *)
(***************************************************************************)
MaxOldExtent == 6
MaxFactor == 4
OldMins == {-1, 0, 2}

the_split(factor, exact, partial) ==
    Split(<<"x">>, <<"xo">>, <<"xi">>, factor, exact, partial, "SplitVar")

\* the base left as `outer * split.factor + old_min` in every case
split_base_Unclamped(split, is_update, proven, innermost_serial) ==
    Add(Mul(Variable("int", split.outer), IntImm(split.factor)),
        Variable("int", split.old_var \o <<"loop_min">>))

\* the base of a split: proven is the outcome of the divisibility test on
\* known_size_dims, innermost_serial says that the outer var is the
\* innermost non-trivial loop and serial
split_base(split, is_update, proven, innermost_serial) ==
    LET outer == Variable("int", split.outer)
        old_max == Variable("int", split.old_var \o <<"loop_max">>)
        old_min == Variable("int", split.old_var \o <<"loop_min">>)
        base == Add(Mul(outer, IntImm(split.factor)), old_min)
    IN IF proven THEN base
       ELSE IF ~is_update /\ ~split.partial
       THEN Min(IF innermost_serial THEN likely(base) ELSE base,
                Add(old_max, IntImm(1 - split.factor)))
       ELSE base

\* the lets inside the loops, the outer one first
split_lets(split, is_update, proven, innermost_serial) ==
    LET base_name == split.inner \o <<"base">>
    IN <<LetStmt(base_name, split_base(split, is_update, proven, innermost_serial)),
         LetStmt(split.old_var,
                 Add(Variable("int", base_name), Variable("int", split.inner)))>>

\* the extents of the two loops
split_inner_extent(split) ==
    IF split.partial
    THEN Min(likely(IntImm(split.factor)),
             Add(Variable("int", split.old_var \o <<"loop_max">>), IntImm(1)))
    ELSE IntImm(split.factor)

split_outer_extent(split) ==
    Div(Add(Sub(Variable("int", split.old_var \o <<"loop_max">>),
                Variable("int", split.old_var \o <<"loop_min">>)),
            IntImm(split.factor)),
        IntImm(split.factor))

\* the lets around the loops, the outer one first
split_bounds_lets(split) ==
    LET inner_extent == split_inner_extent(split)
        outer_extent == split_outer_extent(split)
    IN <<LetStmt(split.outer \o <<"loop_extent">>, outer_extent),
         LetStmt(split.outer \o <<"loop_max">>, Add(outer_extent, IntImm(-1))),
         LetStmt(split.outer \o <<"loop_min">>, IntImm(0)),
         LetStmt(split.inner \o <<"loop_extent">>, inner_extent),
         LetStmt(split.inner \o <<"loop_max">>, Add(inner_extent, IntImm(-1))),
         LetStmt(split.inner \o <<"loop_min">>, IntImm(0))>>

\* the loop values after the lets have been bound one inside the other
RECURSIVE Bind(_, _)
Bind(lets, at) ==
    IF lets = <<>> THEN at
    ELSE Bind(Tail(lets), Put(at, Head(lets).name, Eval(Head(lets).value, at).v))

\* the iterations of a loop
Iterations(vals, var) ==
    { vals[var \o <<"loop_min">>] + k : k \in 0..(vals[var \o <<"loop_extent">>] - 1) }

\* the values the old variable takes while the two loops run
Visited(split, bounds, inside, at) ==
    LET vals == Bind(bounds, at)
    IN { Bind(inside, Put(Put(vals, split.outer, o), split.inner, i))[split.old_var] :
            o \in Iterations(vals, split.outer), i \in Iterations(vals, split.inner) }

\* the test `is_zero(simplify(iter->second % split.factor))` for an old
\* variable whose size is known when `known` holds
SplitProven(in) ==
    in.known /\ (in.at[<<"x", "loop_max">>] - in.at[<<"x", "loop_min">>] + 1) % in.split.factor = 0

InitLoopNest ==
    /\ \E factor \in 1..MaxFactor : \E exact \in BOOLEAN : \E partial \in BOOLEAN :
       \E is_update \in BOOLEAN : \E known \in BOOLEAN : \E innermost_serial \in BOOLEAN :
       \E old_min \in OldMins : \E old_extent \in 0..MaxOldExtent :
            emit_in = [task |-> "split", split |-> the_split(factor, exact, partial),
                       is_update |-> is_update, known |-> known,
                       innermost_serial |-> innermost_serial,
                       at |-> [n \in {<<"x", "loop_min">>, <<"x", "loop_max">>} |->
                                  IF n = <<"x", "loop_min">> THEN old_min
                                  ELSE old_min + old_extent - 1]]
    /\ emitted = <<>>
    /\ evaluated = <<>>
    /\ epc = "start"
    /\ LoweringIdle
    /\ SplitsIdle
    /\ PartitionerIdle
    /\ AdvisorIdle

\* the SplitVar branch of the loop over the splits and of the loop that
\* defines the bounds
EmitSplit ==
    /\ epc = "start" /\ emit_in.task = "split"
    /\ IF ~SplitProven(emit_in) /\ emit_in.split.exact
       THEN /\ epc' = "user_error"
            /\ UNCHANGED emitted
       ELSE /\ emitted' = [bounds |-> split_bounds_lets(emit_in.split),
                           inside |-> split_lets(emit_in.split, emit_in.is_update,
                                                 SplitProven(emit_in),
                                                 emit_in.innermost_serial)]
            /\ epc' = "lets"
    /\ UNCHANGED <<emit_in, evaluated, xem>>

\* the loop nest runs
RunLoops ==
    /\ epc = "lets" /\ emit_in.task = "split"
    /\ evaluated' = Visited(emit_in.split, emitted.bounds, emitted.inside, emit_in.at)
    /\ epc' = "ran"
    /\ UNCHANGED <<emit_in, emitted, xem>>

NextLoopNest ==
    \/ EmitSplit
    \/ RunLoops

SpecLoopNest == InitLoopNest /\ [][NextLoopNest]_vars

old_min_of(in) == in.at[<<"x", "loop_min">>]
old_max_of(in) == in.at[<<"x", "loop_max">>]

\* the least n with n * b >= a, for a >= 0 and b >= 1
Ceil(a, b) == CHOOSE n \in 0..a : n * b >= a /\ (n = 0 \/ (n - 1) * b < a)

\* the extent the outer loop was given
OuterExtent == Bind(emitted.bounds, emit_in.at)[<<"xo", "loop_extent">>]
InnerExtent == Bind(emitted.bounds, emit_in.at)[<<"xi", "loop_extent">>]

\* C24: for a pure stage and a SplitVar that is neither exact nor partial,
\* with old_max - old_min + 1 >= factor >= 1, the loops over outer in
\* [0, (old_max - old_min + factor) / factor) and inner in [0, factor) give
\* the old variable only values of [old_min, old_max] and every one of
\* them, and the outer extent is ceil((old_max - old_min + 1) / factor).
C24_SplitCovers ==
    (/\ epc = "ran"
     /\ ~emit_in.is_update /\ ~emit_in.split.exact /\ ~emit_in.split.partial
     /\ old_max_of(emit_in) - old_min_of(emit_in) + 1 >= emit_in.split.factor) =>
        /\ evaluated = old_min_of(emit_in)..old_max_of(emit_in)
        /\ InnerExtent = emit_in.split.factor
        /\ OuterExtent = Ceil(old_max_of(emit_in) - old_min_of(emit_in) + 1,
                              emit_in.split.factor)

\* a split by 4 of an extent of 6 that is not known to divide has run: the
\* last tile was shifted down by the clamp
C24_Witness ==
    /\ epc = "ran"
    /\ ~emit_in.is_update /\ ~emit_in.split.exact /\ ~emit_in.split.partial
    /\ emit_in.split.factor = 4
    /\ old_max_of(emit_in) - old_min_of(emit_in) + 1 = 6
    /\ emitted.inside[1].value.k = "Min"
    /\ OuterExtent = 2
    /\ evaluated = old_min_of(emit_in)..old_max_of(emit_in)

\* C25: a partial SplitVar has the inner extent min(factor, old_max + 1) and
\* the base outer * factor + old_min without a clamp, and the loops over
\* these bounds give the old variable no value above old_max.
C25_PartialTail ==
    (epc = "ran" /\ emit_in.split.partial) =>
        /\ InnerExtent = Min2(emit_in.split.factor, old_max_of(emit_in) + 1)
        /\ emitted.inside[1].value =
               Add(Mul(Variable("int", <<"xo">>), IntImm(emit_in.split.factor)),
                   Variable("int", <<"x", "loop_min">>))
        /\ \A v \in evaluated : v <= old_max_of(emit_in)


(***************************************************************************)
(* build_provide_loop_nest: the containers vector.  The loops of the dims  *)
(* and the lets stripped off the statement are put in one vector, the lets *)
(* are pushed outwards and the statement is wrapped again.                 *)
(***************************************************************************)
ContainerDims ==
    { <<"__outermost">>, <<"x", "__outermost">>, <<"x", "y", "__outermost">> }
LetNames == <<"a", "b", "c">>

\* `Expr()`
UndefinedExpr == Expr("Undefined", <<>>, "", 0, <<>>)
defined(e) == e.k # "Undefined"

Container(dim_idx, name, value) == [dim_idx |-> dim_idx, name |-> name, value |-> value]

\* expr_uses_var(e, var)
expr_uses_var(e, var) == Mentions(e, var)

\* the values of the lets: they use at most two names
LetValues(ds) ==
    LET names == { <<ds[i]>> : i \in 1..Len(ds) } \cup { <<LetNames[i]>> : i \in 1..Len(LetNames) }
    IN {IntImm(0)} \cup { Variable("int", n) : n \in names }
         \cup { Add(Variable("int", n1), Variable("int", n2)) :
                   n1 \in names, n2 \in { <<"__outermost">>, <<"b">> } }

\* the loops of the dims, the outermost first; dim_idx counts from 0
for_containers(ds) ==
    [k \in 1..Len(ds) |-> Container(Len(ds) - k, <<ds[Len(ds) - k + 1]>>, UndefinedExpr)]

\* the lets stripped off the statement
let_containers(lets) ==
    [k \in 1..Len(lets) |-> Container(-1, lets[k].name, lets[k].value)]

SwapAt(nest, j) ==
    [k \in 1..Len(nest) |-> IF k = j THEN nest[j + 1] ELSE IF k = j + 1 THEN nest[j] ELSE nest[k]]

\* a let that is pushed up whatever its value uses
swappable_Always(nest, j) == TRUE

\* `!expr_uses_var(nest[j+1].value, nest[j].name)`
swappable(nest, j) == ~expr_uses_var(nest[j + 1].value, nest[j].name)

\* the inner loop of the sort: the let stands at j + 1 and is pushed up by
\* one as long as its value does not use the name of the container above
RECURSIVE push_up(_, _)
push_up(nest, j) ==
    IF j < 1 THEN nest
    ELSE IF swappable(nest, j)
    THEN push_up(SwapAt(nest, j), j - 1)
    ELSE nest

\* the statement wrapped again, the outermost container first
rewrap(nest) ==
    [k \in 1..Len(nest) |->
        IF defined(nest[k].value)
        THEN [k |-> "LetStmt", name |-> nest[k].name, value |-> nest[k].value]
        ELSE [k |-> "For", name |-> nest[k].name,
              min |-> Variable("int", nest[k].name \o <<"loop_min">>),
              extent |-> Variable("int", nest[k].name \o <<"loop_extent">>)]]

LetLists(ds) ==
    UNION { { [k \in 1..n |-> LetStmt(<<LetNames[k]>>, f[k])] : f \in [1..n -> LetValues(ds)] } :
              n \in 0..Len(LetNames) }

InitContainers ==
    /\ \E ds \in ContainerDims : \E lets \in LetLists(ds) :
            emit_in = [task |-> "containers", dims |-> ds, lets |-> lets]
    /\ emitted = <<>>
    /\ evaluated = <<>>
    /\ epc = "start"
    /\ LoweringIdle
    /\ SplitsIdle
    /\ PartitionerIdle
    /\ AdvisorIdle

\* the loops and the lets are put into the vector; the sort starts at the
\* first let (the vector is indexed from 1 here)
PushContainers ==
    /\ epc = "start" /\ emit_in.task = "containers"
    /\ emitted' = [nest |-> for_containers(emit_in.dims) \o let_containers(emit_in.lets),
                   i |-> Len(emit_in.dims) + 1]
    /\ epc' = "sort"
    /\ UNCHANGED <<emit_in, evaluated, xem>>

\* one round of the outer loop of the sort
PushUp ==
    /\ epc = "sort" /\ emitted.i <= Len(emitted.nest)
    /\ emitted' = [nest |-> push_up(emitted.nest, emitted.i - 1), i |-> emitted.i + 1]
    /\ UNCHANGED <<emit_in, evaluated, epc, xem>>

\* the statement is wrapped in the lets and the loops
Rewrap ==
    /\ epc = "sort" /\ emitted.i > Len(emitted.nest)
    /\ evaluated' = rewrap(emitted.nest)
    /\ epc' = "rewrapped"
    /\ UNCHANGED <<emit_in, emitted, xem>>

NextContainers ==
    \/ PushContainers
    \/ PushUp
    \/ Rewrap

SpecContainers == InitContainers /\ [][NextContainers]_vars

\* the place of the container of that name in a vector or a statement
PlaceOf(nest, name) == CHOOSE k \in 1..Len(nest) : nest[k].name = name

NestBefore == for_containers(emit_in.dims) \o let_containers(emit_in.lets)

ForsOf(stmt) == SelectSeq(stmt, LAMBDA c : c.k = "For")
LetsOf(stmt) == { k \in 1..Len(stmt) : stmt[k].k = "LetStmt" }

\* C26: after the lets have been pushed outwards the loops stand in the
\* order they had, the reverse of the order of the dims; every let is still
\* inside each container whose name its value uses and that enclosed it
\* before; and a let stands inside a loop whose variable its value does not
\* use only if a container whose name its value uses lies between the two.
C26_LetsOutward ==
    epc = "rewrapped" =>
        LET stmt == evaluated
            ds == emit_in.dims
        IN /\ Len(stmt) = Len(NestBefore)
           /\ [k \in 1..Len(ForsOf(stmt)) |-> ForsOf(stmt)[k].name]
                 = [k \in 1..Len(ds) |-> <<ds[Len(ds) - k + 1]>>]
           /\ \A l \in LetsOf(stmt) : \A c \in 1..Len(NestBefore) :
                (/\ expr_uses_var(stmt[l].value, NestBefore[c].name)
                 /\ c < PlaceOf(NestBefore, stmt[l].name)) =>
                    PlaceOf(stmt, NestBefore[c].name) < l
           /\ \A l \in LetsOf(stmt) : \A f \in 1..(l - 1) :
                (stmt[f].k = "For" /\ ~expr_uses_var(stmt[l].value, stmt[f].name)) =>
                    \E c \in (f + 1)..(l - 1) : expr_uses_var(stmt[l].value, stmt[c].name)

\* three lets under two loops have been sorted: one went out of both
\* loops, one stayed under the loop it uses and one under the let it uses
C26_Witness ==
    /\ epc = "rewrapped"
    /\ emit_in.dims = <<"x", "__outermost">>
    /\ Len(emit_in.lets) = 3
    /\ evaluated # rewrap(NestBefore)
    /\ evaluated[1].k = "LetStmt"
    /\ \E l \in LetsOf(evaluated) :
          l > 1 /\ evaluated[l - 1].k = "For"
                /\ expr_uses_var(evaluated[l].value, evaluated[l - 1].name)
    /\ \E l \in LetsOf(evaluated) :
          l > 1 /\ evaluated[l - 1].k = "LetStmt"
                /\ expr_uses_var(evaluated[l].value, evaluated[l - 1].name)


(***************************************************************************)
(* ComputeLegalSchedules on the production of a consumer with an update    *)
(* stage.  The pure stage s0 and the update stage s1 of h have a schedule  *)
(* each (build_update passes r.schedule), so the two loop nests may differ *)
(* in the order and in the types of their loops; g is used in either.      *)
(***************************************************************************)
StageDims ==
    { <<Dim(o[1], tx, "Host"), Dim(o[2], ty, "Host"), Dim("__outermost", "Serial", "Host")>> :
        o \in { <<"x", "y">>, <<"y", "x">> },
        tx \in {"Serial", "Parallel", "Vectorized"}, ty \in {"Serial", "Parallel"} }

StageCalls == { {}, {"g"} }

\* the statement validate_schedule is given for g: the production of h
\* inside the root loop
ConsumerStmt(ds0, cs0, ds1, cs1) ==
    MkFor("", 0, "__root", "Serial", "Host",
          MkPC("h", build_provide_loop_nest("h", 0, cs0, ds0),
                    MkBlock(build_provide_loop_nest("h", 1, cs1, ds1), Undef),
                    Evaluate0))

InitSites ==
    /\ \E ds0 \in StageDims : \E ds1 \in StageDims :
       \E cs0 \in StageCalls : \E cs1 \in StageCalls :
            emit_in = [task |-> "sites", func |-> "g",
                       stmt |-> ConsumerStmt(ds0, cs0, ds1, cs1)]
    /\ emitted = <<>>
    /\ evaluated = <<>>
    /\ epc = "start"
    /\ LoweringIdle
    /\ SplitsIdle
    /\ PartitionerIdle
    /\ AdvisorIdle

\* `ComputeLegalSchedules legal(f); s.accept(&legal);`
VisitStmt ==
    /\ epc = "start" /\ emit_in.task = "sites"
    /\ emitted' = legal_sites(emit_in.func, emit_in.stmt)
    /\ epc' = "visited"
    /\ UNCHANGED <<emit_in, evaluated, xem>>

\* validate_schedule goes on with the sites: the schedule of the function
\* is looked up among them
CheckLevels ==
    /\ epc = "visited"
    /\ \E store_at \in {root, LoopLevel("h", "y"), LoopLevel("h", "x")} :
       \E compute_at \in {LoopLevel("h", "y"), LoopLevel("h", "x")} :
            evaluated' = [store_at |-> store_at, compute_at |-> compute_at,
                          verdict |-> validate_schedule(emit_in.func, store_at, compute_at,
                                                        emit_in.stmt, FALSE)]
    /\ epc' = "validated"
    /\ UNCHANGED <<emit_in, emitted, xem>>

NextSites ==
    \/ VisitStmt
    \/ CheckLevels

SpecSites == InitSites /\ [][NextSites]_vars

\* the loops around every use of fn in the statement, in the order the
\* visitor meets the uses; a loop is held with its stage
RECURSIVE UseStacks(_, _, _)
RECURSIVE KidStacks(_, _, _, _)
KidStacks(fn, kids, j, stack) ==
    IF j > Len(kids) THEN <<>>
    ELSE UseStacks(fn, kids[j], stack) \o KidStacks(fn, kids, j + 1, stack)

UseStacks(fn, stmt, stack) ==
    IF stmt.k = "For"
    THEN UseStacks(fn, stmt.kids[1],
                   Append(stack, [fn |-> stmt.fn, st |-> stmt.st, var |-> stmt.var, t |-> stmt.t]))
    ELSE (IF fn \in stmt.calls THEN <<stack>> ELSE <<>>)
            \o KidStacks(fn, stmt.kids, 1, stack)

LevelOf(loop) == LoopLevel(loop.fn, loop.var)
LevelsOf(stack) == { LevelOf(stack[k]) : k \in 1..Len(stack) }
IsParallel(loop) == loop.t \in {"Parallel", "Vectorized"}

\* the places of the loops of that level in a stack
PlacesOf(stack, l) == { k \in 1..Len(stack) : LevelOf(stack[k]) = l }

\* C27: after the statement has been visited a loop level is among the
\* sites exactly if a loop of that level encloses every use of the
\* function; the sites are listed with the outer loops first and the
\* parallel flag of a site is that of the loop of its level, around every
\* use.
C27_LegalSites ==
    epc = "visited" =>
        LET uses == UseStacks(emit_in.func, emit_in.stmt, <<>>)
            sites == emitted
        IN /\ \A l \in UNION { LevelsOf(uses[u]) : u \in 1..Len(uses) } :
                 (\E i \in 1..Len(sites) : sites[i].loop_level = l)
                     <=> \A u \in 1..Len(uses) : l \in LevelsOf(uses[u])
           /\ \A i \in 1..Len(sites) : \A u \in 1..Len(uses) :
                 /\ PlacesOf(uses[u], sites[i].loop_level) # {}
                 /\ \A k \in PlacesOf(uses[u], sites[i].loop_level) :
                        sites[i].is_parallel = IsParallel(uses[u][k])
                 /\ \A j \in (i + 1)..Len(sites) :
                        \A k \in PlacesOf(uses[u], sites[i].loop_level) :
                        \A m \in PlacesOf(uses[u], sites[j].loop_level) : k < m

\* what holds of the sites: their levels are those every use has a loop of,
\* and they are the loops around the last use visited that have such a
\* level, in the order and with the flags of these loops
C27_LastUse ==
    epc = "visited" =>
        LET uses == UseStacks(emit_in.func, emit_in.stmt, <<>>)
            sites == emitted
        IN IF Len(uses) = 0 THEN sites = <<>>
           ELSE LET last == uses[Len(uses)]
                    common(loop) == \A u \in 1..Len(uses) : LevelOf(loop) \in LevelsOf(uses[u])
                    kept == SelectSeq(last, common)
                IN sites = [k \in 1..Len(kept) |-> [is_parallel |-> IsParallel(kept[k]),
                                                     loop_level |-> LevelOf(kept[k])]]

\* g is used in both stages of h; the loop over x is Parallel in the pure
\* stage and Serial in the update stage, and g stored at h.y and computed at
\* h.x has been accepted
C27_MissedRace ==
    /\ epc = "validated"
    /\ Len(UseStacks(emit_in.func, emit_in.stmt, <<>>)) = 2
    /\ \E k \in 1..4 : LET loop == UseStacks(emit_in.func, emit_in.stmt, <<>>)[1][k]
                         IN loop.var = "x" /\ loop.t = "Parallel" /\ loop.st = 0
    /\ evaluated.store_at = LoopLevel("h", "y")
    /\ evaluated.compute_at = LoopLevel("h", "x")
    /\ evaluated.verdict = "ok"

\* the loops around the last use of the function that have a level every
\* use has a loop of: the loops the sites stand for
SiteLoops ==
    LET uses == UseStacks(emit_in.func, emit_in.stmt, <<>>)
        common(loop) == \A u \in 1..Len(uses) : LevelOf(loop) \in LevelsOf(uses[u])
    IN IF Len(uses) = 0 THEN <<>> ELSE SelectSeq(uses[Len(uses)], common)

\* C30: with store_at at the site a and compute_at at the site b >= a,
\* validate_schedule raises the potential-race user error exactly when one
\* of the loops of the sites a+1 .. b, the loop of compute_at included, is
\* Parallel or Vectorized; the type of the loop of store_at plays no part.
C30_RaceCheck ==
    epc = "validated" =>
        \A a \in 1..Len(SiteLoops) : \A b \in a..Len(SiteLoops) :
            (/\ LevelOf(SiteLoops[a]) = evaluated.store_at
             /\ LevelOf(SiteLoops[b]) = evaluated.compute_at) =>
                ((evaluated.verdict = "user_error_race") <=>
                    \E j \in (a + 1)..b : SiteLoops[j].t \in {"Parallel", "Vectorized"})

\* g stored at the loop over y and computed at the loop over x just inside
\* it: the loop over x is Vectorized, no other loop is, and the schedule is
\* rejected for the race
C30_Witness ==
    /\ epc = "validated"
    /\ evaluated.store_at = LoopLevel("h", "y")
    /\ evaluated.compute_at = LoopLevel("h", "x")
    /\ evaluated.verdict = "user_error_race"
    /\ \E a \in 1..Len(SiteLoops) :
          /\ a < Len(SiteLoops)
          /\ LevelOf(SiteLoops[a]) = evaluated.store_at
          /\ LevelOf(SiteLoops[a + 1]) = evaluated.compute_at
          /\ SiteLoops[a + 1].t = "Vectorized"
          /\ \A j \in 1..Len(SiteLoops) : j # a + 1 => SiteLoops[j].t = "Serial"

\* g stored and computed as above, the loop over y Parallel and the loop
\* over x Serial: the schedule is accepted
C30_StoreLoopParallel ==
    /\ epc = "validated"
    /\ evaluated.verdict = "ok"
    /\ \E a \in 1..Len(SiteLoops) :
          /\ a < Len(SiteLoops)
          /\ LevelOf(SiteLoops[a]) = evaluated.store_at
          /\ LevelOf(SiteLoops[a + 1]) = evaluated.compute_at
          /\ SiteLoops[a].t = "Parallel"


(***************************************************************************)
(* The option cache of the Partitioner                                     *)
(***************************************************************************)
\* the option a pair gets when it is evaluated with the groups as they are
FreshOption(p, l) ==
    IF l = "INLINE"
    THEN [evaluate_option(NewOption(p, AllOnes(p[2])), "INLINE") EXCEPT
              !.tile_sizes = AllOnes(p[2])]
    ELSE IF Invalid(p) THEN NewOption(p, <<>>)
    ELSE BestOfOptions(p, TileOptions(Len(args(p[2]))), 1, NewOption(p, <<>>))

\* the cached entries choose_candidate can return: those of the candidate
\* pairs
Returnable ==
    { cand_pairs[i] : i \in 1..Len(cand_pairs) } \cap DOMAIN option_cache

\* the keys that name a group that has been merged away
StaleKeys ==
    { key \in DOMAIN option_cache :
        key[1] \notin DOMAIN groups \/ key[2] \notin DOMAIN groups }

\* C28 as stated: every entry choose_candidate can return was evaluated
\* with the groups as they are now, and no key of the cache names a group
\* that has been merged away.
C28_AsStated ==
    ppc \in {"loop", "chosen"} =>
        /\ \A p \in Returnable : option_cache[p] = FreshOption(p, level)
        /\ StaleKeys = {}

\* C28, amended: merge_groups erases the entries whose key names the child
\* group, the one group whose members change.  Every entry choose_candidate
\* can return is the option the pair gets with the groups as they are now;
\* an entry whose key names the merged-away group as a consumer stays in the
\* cache, and such a key is never a candidate pair again.
C28_CacheCoherent ==
    ppc \in {"loop", "chosen"} =>
        /\ \A p \in Returnable : option_cache[p] = FreshOption(p, level)
        /\ \A key \in StaleKeys :
              /\ key \notin { cand_pairs[i] : i \in 1..Len(cand_pairs) }
              /\ key[2] \notin DOMAIN groups

\* a round after a merge: the cache holds the entry of a merged-away group
\* next to the entry of a candidate pair, evaluated with the merged group
C28_Witness ==
    /\ ppc = "chosen"
    /\ Cardinality(DOMAIN groups) < Cardinality(Funcs)
    /\ StaleKeys # {}
    /\ \E p \in Returnable : Len(groups[p[2]]) > 1


(***************************************************************************)
(* The levels the schedule emitter gives the members of a group            *)
(***************************************************************************)
\* the step of schedule_advisor that emits the schedules and returns, with
\* no read past the end of a vector of tile sizes
EmitterRan ==
    /\ apc = "group" /\ ppc = "done" /\ apc' = "entry"
    /\ \A g \in DOMAIN groups :
          Len(env[g].dims) - 1 <= Len(group_sched[g].tile_sizes)

\* the vars of the group output the emitter tiles: the dims but the last
\* whose tile size is not -1
TiledVars(g) ==
    { env[g].dims[i].var : i \in { j \in 1..(Len(env[g].dims) - 1) :
                                     group_sched[g].tile_sizes[j] # -1 } }

\* the members of a group the emitter gives a level to
PlacedMembers(g) ==
    { groups[g][k] : k \in 1..Len(groups[g]) } \ ({g} \cup DOMAIN inlines)

\* a dim of the tile level: the outer dim of a tile split, a var tiled by
\* 1, or a dim fused from such
TileLevel(g, name) ==
    \/ \E i \in 1..Len(name) : name[i] = "tile"
    \/ name \in TiledVars(g) /\ Len(name) = 1

DimNames(ds) == { ds[i].var : i \in 1..Len(ds) }

\* C29: when the emitter has run, every member of a group with a tiled dim
\* that is neither the group output nor inlined is stored and computed at
\* the group output, at a dim of the output's final dims that is not
\* __outermost and is the innermost dim of the tile level; the members of a
\* group without a tiled dim keep their levels.
C29_MemberLevels ==
    [][EmitterRan =>
        \A g \in DOMAIN groups : \A m \in PlacedMembers(g) :
            IF TiledVars(g) # {}
            THEN LET ds == env'[g].dims
                     at == env'[m].compute_level
                 IN /\ env'[m].store_level = at
                    /\ at.func = g
                    /\ at.var \in DimNames(ds)
                    /\ at.var # <<"__outermost">>
                    /\ TileLevel(g, at.var)
                    /\ \A i \in 1..Len(ds) : \A j \in 1..(i - 1) :
                          ds[i].var = at.var => ~TileLevel(g, ds[j].var)
            ELSE /\ env'[m].store_level = env[m].store_level
                 /\ env'[m].compute_level = env[m].compute_level]_vars

====
